---- MODULE Spec2Model ----
(***************************************************************************)
(* A model of the wyag revision store (src/wyag, src/ewyag): the object    *)
(* store, the KVLM, tree and index codecs, the staging index and the       *)
(* commit pipeline.  Byte strings are sequences of byte values 0..255;     *)
(* positions in the codec operators are 0-based, as in the Python source.  *)
(***************************************************************************)
EXTENDS Integers, Sequences, FiniteSets, TLC

VARIABLES kv, tr, ix, sha1, digests, objects, gitdir, run, hist, ob, rf, fs, procs

vars == <<kv, tr, ix, sha1, digests, objects, gitdir, run, hist, ob, rf, fs, procs>>

\* The state of the repository and of the command at work on it.
repoVars == <<objects, gitdir, run, hist, ob, rf, fs, procs>>

IndexIdle == [pc |-> "idle", entries |-> <<>>, file |-> <<>>, tamper |-> "none",
              read |-> [err |-> "", val |-> <<>>]]

\* No command at work, and none run yet.
RunIdle == [op |-> "none", pc |-> "idle", err |-> "", sha |-> <<>>, index |-> <<>>,
            parent |-> <<>>, tree |-> <<>>, author |-> <<>>, message |-> <<>>,
            name |-> <<>>, dest |-> "", out |-> {}, reference |-> <<>>,
            annotated |-> FALSE]

HistNone == [returned |-> <<>>, ops |-> 0]

ObIdle == [pc |-> "idle", fmt |-> <<>>, data |-> <<>>, first |-> <<>>, file |-> <<>>,
           before |-> <<>>, second |-> [err |-> "", sha |-> <<>>],
           read |-> [err |-> "", fmt |-> <<>>, data |-> <<>>],
           typed |-> [blob |-> "", commit |-> "", tree |-> ""]]

\* No name being resolved.
RfIdle == [pc |-> "idle", name |-> <<>>, fmt |-> <<>>,
           candidates |-> [err |-> "", val |-> <<>>],
           found |-> [err |-> "", val |-> <<>>],
           stack |-> <<>>, resolved |-> [err |-> "", val |-> <<>>]]

\* No repository being created.
FsIdle == [pc |-> "idle", module |-> "wyag", before |-> "missing", worktree |-> "missing",
           other |-> FALSE, dirs |-> {}, files |-> <<>>, err |-> "",
           opened |-> [err |-> "none", vers |-> <<>>]]

\* The codec specifications leave the repository alone.
RepoUnused ==
    /\ objects = <<>>
    /\ gitdir = <<>>
    /\ run = RunIdle
    /\ hist = HistNone
    /\ ob = ObIdle
    /\ rf = RfIdle
    /\ fs = FsIdle
    /\ procs = <<>>

----------------------------------------------------------------------------
(* Byte values used by the codecs.                                         *)

NUL == 0
NL == 10
SP == 32

(* Python's bytes operations.                                              *)

MinOf(S) == CHOOSE i \in S : \A j \in S : i <= j

MaxOf(S) == CHOOSE i \in S : \A j \in S : i >= j

\* raw.find(b, start): the first position >= start holding byte b, or -1.
Find(raw, b, start) ==
    LET from == IF start < 0 THEN MaxOf({0, start + Len(raw)}) ELSE start
        S == {i \in from..(Len(raw) - 1) : raw[i + 1] = b}
    IN IF S = {} THEN -1 ELSE MinOf(S)

\* A slice bound as Python clamps it: negative bounds count from the end.
SliceBound(raw, i) ==
    IF i < 0 THEN MaxOf({0, i + Len(raw)}) ELSE MinOf({i, Len(raw)})

\* raw[a:b]
Slice(raw, a, b) == SubSeq(raw, SliceBound(raw, a) + 1, SliceBound(raw, b))

\* b''.join(seqs).  The recursion halves the range, so its depth is the
\* logarithm of the number of pieces.
RECURSIVE ConcatRange(_, _, _)
ConcatRange(seqs, lo, hi) ==
    IF lo > hi THEN <<>>
    ELSE IF lo = hi THEN seqs[lo]
    ELSE ConcatRange(seqs, lo, (lo + hi) \div 2)
           \o ConcatRange(seqs, ((lo + hi) \div 2) + 1, hi)

Concat(seqs) == ConcatRange(seqs, 1, Len(seqs))

\* raw.replace(old, new), for the patterns the codecs use: one byte, or two
\* different bytes.  Two matches of such a pattern never overlap, so
\* Python's leftmost, non-overlapping matches are all the matches.
Replace(raw, old, new) ==
    LET n == Len(old)
        match(i) == i + n - 1 <= Len(raw) /\ SubSeq(raw, i, i + n - 1) = old
        covered(i) == \E j \in 1..(n - 1) : i - j >= 1 /\ match(i - j)
    IN Concat([i \in 1..Len(raw) |->
                 IF match(i) THEN new
                 ELSE IF covered(i) THEN <<>>
                 ELSE <<raw[i]>>])

----------------------------------------------------------------------------
(* An insertion-ordered dictionary (collections.OrderedDict): a sequence   *)
(* of <<key, value>> pairs with distinct keys, in insertion order.         *)

DictKeys(d) == [i \in 1..Len(d) |-> d[i][1]]

DictHas(d, k) == \E i \in 1..Len(d) : d[i][1] = k

DictGet(d, k) == d[CHOOSE i \in 1..Len(d) : d[i][1] = k][2]

\* d[k] = v: an existing key keeps its position, a new key goes last.
DictSet(d, k, v) ==
    IF DictHas(d, k)
    THEN [i \in 1..Len(d) |-> IF d[i][1] = k THEN <<k, v>> ELSE d[i]]
    ELSE Append(d, <<k, v>>)

----------------------------------------------------------------------------
(* The KVLM codec.  A result is [err, val]: err = "" on success, else the  *)
(* name of the exception; "Hang" stands for a loop that never ends.        *)

Ok(v) == [err |-> "", val |-> v]

Err(e) == [err |-> e, val |-> <<>>]

\* A value computed once and used under a name: F's parameter.
With(e, F(_)) == F(e)

\* The rest F of a computation, run on the value of r unless r has failed.
Try(r, F(_)) == IF r.err # "" THEN r ELSE F(r.val)

\* The loop that finds the end of a value.  `end` is the loop variable
\* before the iteration.  An iteration either moves `end` to a later
\* newline or, when no newline is left, sets it to -1 (bytes.find's "not
\* found"), from where raw[end+1] reads raw[0].  The loop's whole state is
\* `end`: a second arrival at -1 repeats the first, and the loop never ends.
RECURSIVE kvlm_value_end(_, _, _)
kvlm_value_end(raw, end, wrapped) ==
    With(Find(raw, NL, end + 1), LAMBDA e :
        IF e + 1 >= Len(raw) THEN Err("IndexError")
        ELSE IF raw[e + 2] # SP THEN Ok(e)
        ELSE IF e = -1 /\ wrapped THEN Err("Hang")
        ELSE kvlm_value_end(raw, e, wrapped \/ e = -1))

\* dct once the value was added under key.
kvlm_store(dct, key, value) ==
    IF DictHas(dct, key) THEN DictSet(dct, key, Append(DictGet(dct, key), value))
    ELSE DictSet(dct, key, <<value>>)

RECURSIVE kvlm_parse_from(_, _, _)
kvlm_parse_from(raw, start, dct) ==
    With(Find(raw, SP, start), LAMBDA spc :
    With(Find(raw, NL, start), LAMBDA nl :
        IF spc < 0 \/ nl < spc
        THEN IF nl # start THEN Err("AssertionError")
             ELSE Ok(DictSet(dct, <<>>, <<Slice(raw, start + 1, Len(raw))>>))
        ELSE Try(kvlm_value_end(raw, start, FALSE), LAMBDA end :
                 \* The parse from a position depends on raw and the position
                 \* alone: a recursion that does not advance repeats for ever,
                 \* until Python's recursion limit.
                 IF end + 1 <= start THEN Err("RecursionError")
                 ELSE kvlm_parse_from(raw, end + 1,
                          kvlm_store(dct, Slice(raw, start, spc),
                                     Replace(Slice(raw, spc + 1, end), <<NL, SP>>,
                                             <<NL>>))))))

kvlm_parse(raw) == kvlm_parse_from(raw, 0, <<>>)

RECURSIVE kvlm_serialize_values(_, _)
kvlm_serialize_values(k, val) ==
    IF val = <<>> THEN <<>>
    ELSE k \o <<SP>> \o Replace(Head(val), <<NL>>, <<NL, SP>>) \o <<NL>>
           \o kvlm_serialize_values(k, Tail(val))

RECURSIVE kvlm_serialize_fields(_)
kvlm_serialize_fields(d) ==
    IF d = <<>> THEN <<>>
    ELSE (IF Head(d)[1] = <<>> THEN <<>>
          ELSE kvlm_serialize_values(Head(d)[1], Head(d)[2]))
         \o kvlm_serialize_fields(Tail(d))

kvlm_serialize(kvlm) ==
    IF ~DictHas(kvlm, <<>>) THEN Err("KeyError")
    ELSE Ok(kvlm_serialize_fields(kvlm) \o <<NL>> \o Concat(DictGet(kvlm, <<>>)))

----------------------------------------------------------------------------
(* The payloads the KVLM specification starts from: every byte string up   *)
(* to MaxRawLen over {SP, NL, 'a', 'b'}, and the payloads made of up to    *)
(* MaxHeaderLines header lines followed by a blank line and a message.     *)

MaxRawLen == 5
MaxHeaderLines == 3

KvlmAlphabet == {SP, NL, 97, 98}

RawStrings == UNION {[1..n -> KvlmAlphabet] : n \in 0..MaxRawLen}

\* "a b", "b a", a value with a continuation line, an empty value whose
\* continuation starts with a space, and a line with an empty key.
HeaderLines ==
    { <<97, SP, 98, NL>>,
      <<SP, 97, NL>>,
      <<98, SP, 97, NL>>,
      <<97, SP, 97, NL, SP, 98, NL>>,
      <<98, SP, NL, SP, SP, 97, NL>> }

Messages == { <<>>, <<97, NL>>, <<NL, 97, SP, 98>> }

Headers == UNION {[1..n -> HeaderLines] : n \in 0..MaxHeaderLines}

StructuredPayloads == {Concat(h) \o <<NL>> \o m : h \in Headers, m \in Messages}

KvlmInputs == RawStrings \cup StructuredPayloads

(* The KVLM specification: parse a payload, serialize the result, parse    *)
(* the serialization.                                                      *)

KvlmIdle == [pc |-> "idle", raw |-> <<>>, parsed |-> Err(""), out |-> Err(""),
             reparsed |-> Err("")]

InitKvlm ==
    /\ kv \in {[KvlmIdle EXCEPT !.pc = "parse", !.raw = r] : r \in KvlmInputs}
    /\ tr = [pc |-> "idle", leaves |-> <<>>, out |-> Err(""), parsed |-> Err("")]
    /\ ix = IndexIdle
    /\ sha1 = <<>>
    /\ digests = <<>>
    /\ RepoUnused

KvlmParse ==
    /\ kv.pc = "parse"
    /\ kv' = [kv EXCEPT !.parsed = kvlm_parse(kv.raw),
                        !.pc = IF kvlm_parse(kv.raw).err = "" THEN "serialize"
                               ELSE "failed"]
    /\ UNCHANGED <<tr, ix, sha1, digests, repoVars>>

KvlmSerialize ==
    /\ kv.pc = "serialize"
    /\ kv' = [kv EXCEPT !.out = kvlm_serialize(kv.parsed.val), !.pc = "reparse"]
    /\ UNCHANGED <<tr, ix, sha1, digests, repoVars>>

KvlmReparse ==
    /\ kv.pc = "reparse"
    /\ kv.out.err = ""
    /\ kv' = [kv EXCEPT !.reparsed = kvlm_parse(kv.out.val), !.pc = "done"]
    /\ UNCHANGED <<tr, ix, sha1, digests, repoVars>>

NextKvlm == KvlmParse \/ KvlmSerialize \/ KvlmReparse

SpecKvlm == InitKvlm /\ [][NextKvlm]_vars

----------------------------------------------------------------------------
(* Integers of any size, as Python has them: a sequence of base-16 digits, *)
(* most significant first, without leading zeros (zero is <<>>).           *)

ShaBytes == 20
ShaHexLen == 40

StripZeros(ds) ==
    LET nz == {i \in 1..Len(ds) : ds[i] # 0}
    IN IF nz = {} THEN <<>> ELSE SubSeq(ds, MinOf(nz), Len(ds))

Zeros(n) == [i \in 1..n |-> 0]

\* ls * m + a in base 65536 (limbs, most significant first), for m <= 10000.
RECURSIVE MulAddLimbs(_, _, _)
MulAddLimbs(ls, m, carry) ==
    IF ls = <<>> THEN (IF carry = 0 THEN <<>> ELSE <<carry>>)
    ELSE LET v == ls[Len(ls)] * m + carry
         IN Append(MulAddLimbs(SubSeq(ls, 1, Len(ls) - 1), m, v \div 65536),
                   v % 65536)

\* The value of the first j groups of four decimal digits, in base 65536.
RECURSIVE DecFold(_, _)
DecFold(groups, j) ==
    IF j = 0 THEN <<>> ELSE MulAddLimbs(DecFold(groups, j - 1), 10000, groups[j])

\* Base-65536 limbs as base-16 digits.
LimbsToDigits(ls) ==
    StripZeros([i \in 1..(4 * Len(ls)) |->
                  LET l == ls[((i - 1) \div 4) + 1]
                      k == (i - 1) % 4
                  IN IF k = 0 THEN l \div 4096
                     ELSE IF k = 1 THEN (l \div 256) % 16
                     ELSE IF k = 2 THEN (l \div 16) % 16
                     ELSE l % 16])

IsDecChar(c) == c \in 48..57

IsHexChar(c) == c \in (48..57) \cup (97..102) \cup (65..70)

HexVal(c) == IF c \in 48..57 THEN c - 48 ELSE IF c \in 97..102 THEN c - 87 ELSE c - 55

HexChr(d) == IF d < 10 THEN 48 + d ELSE 87 + d

\* int.from_bytes(bs, "big")
int_from_bytes(bs) ==
    StripZeros(Concat([i \in 1..Len(bs) |-> <<bs[i] \div 16, bs[i] % 16>>]))

\* hex(n)[2:]
hex_str(n) == IF n = <<>> THEN <<48>> ELSE [i \in 1..Len(n) |-> HexChr(n[i])]

\* int(s): s read as a decimal number.
DecValue(s) ==
    LET k == (Len(s) + 3) \div 4
        p == Zeros(4 * k - Len(s)) \o [i \in 1..Len(s) |-> s[i] - 48]
        groups == [j \in 1..k |-> 1000 * p[4 * j - 3] + 100 * p[4 * j - 2]
                                   + 10 * p[4 * j - 1] + p[4 * j]]
    IN LimbsToDigits(DecFold(groups, k))

int_dec(s) ==
    IF s = <<>> \/ \E i \in 1..Len(s) : ~IsDecChar(s[i]) THEN Err("ValueError")
    ELSE Ok(DecValue(s))

\* int(s, 16)
int_hex(s) ==
    IF s = <<>> \/ \E i \in 1..Len(s) : ~IsHexChar(s[i]) THEN Err("ValueError")
    ELSE Ok(StripZeros([i \in 1..Len(s) |-> HexVal(s[i])]))

\* format(n, "040x"): lowercase hex, zero-padded to at least 40 characters.
format_040x(n) ==
    LET h == hex_str(n)
    IN IF Len(h) >= ShaHexLen THEN h ELSE [i \in 1..(ShaHexLen - Len(h)) |-> 48] \o h

\* n.to_bytes(20, byteorder="big")
to_bytes(n) ==
    IF Len(n) > 2 * ShaBytes THEN Err("OverflowError")
    ELSE LET ds == Zeros(2 * ShaBytes - Len(n)) \o n
         IN Ok([i \in 1..ShaBytes |-> 16 * ds[2 * i - 1] + ds[2 * i]])

----------------------------------------------------------------------------
(* The tree codec.  A leaf is [mode, path, sha]: mode and path are bytes,  *)
(* sha is a string of hex characters.                                      *)

tree_parse_one(raw, start) ==
    With(Find(raw, SP, start), LAMBDA x :
        IF ~(x - start = 5 \/ x - start = 6) THEN Err("AssertionError")
        ELSE With(Find(raw, NUL, x), LAMBDA y :
             Try(int_dec(hex_str(int_from_bytes(Slice(raw, y + 1, y + 1 + ShaBytes)))),
                 LAMBDA n :
                 Ok(<<y + 1 + ShaBytes,
                      [mode |-> Slice(raw, start, x), path |-> Slice(raw, x + 1, y),
                       sha |-> format_040x(n)]>>))))

\* The loop of tree_parse.  An iteration moves pos forward, except when the
\* record has no NUL: bytes.find then gives -1 and pos becomes 20.  The
\* loop's whole state is pos (ret only grows): a second step back to 20
\* repeats the first, and the loop never ends.
RECURSIVE tree_parse_loop(_, _, _, _)
tree_parse_loop(raw, pos, ret, wrapped) ==
    IF ~(pos < Len(raw)) THEN Ok(ret)
    ELSE Try(tree_parse_one(raw, pos), LAMBDA one :
             IF one[1] <= pos /\ wrapped THEN Err("Hang")
             ELSE tree_parse_loop(raw, one[1], Append(ret, one[2]),
                                  wrapped \/ one[1] <= pos))

tree_parse(raw) == tree_parse_loop(raw, 0, <<>>, FALSE)

RECURSIVE tree_serialize(_)
tree_serialize(items) ==
    IF items = <<>> THEN Ok(<<>>)
    ELSE Try(int_hex(Head(items).sha), LAMBDA sha :
         Try(to_bytes(sha), LAMBDA bin :
         Try(tree_serialize(Tail(items)), LAMBDA rest :
             Ok(Head(items).mode \o <<SP>> \o Head(items).path \o <<NUL>> \o bin
                  \o rest))))

----------------------------------------------------------------------------
(* The leaves the tree specification starts from: up to MaxLeaves leaves   *)
(* with a 5- or 6-byte mode and a 40-character lowercase hex sha.          *)

MaxLeaves == 2

\* A sha of 40 hex characters ending in the given digits, zero-padded.
ShaEnding(ds) == [i \in 1..ShaHexLen |->
                    IF i <= ShaHexLen - Len(ds) THEN 48
                    ELSE HexChr(ds[i - (ShaHexLen - Len(ds))])]

\* A sha of 40 hex characters repeating the given digits.
ShaRepeating(ds) == [i \in 1..ShaHexLen |-> HexChr(ds[((i - 1) % Len(ds)) + 1])]

TreeShas ==
    { ShaEnding(<<>>), ShaEnding(<<7>>), ShaEnding(<<1, 0>>), ShaEnding(<<10, 11>>),
      ShaRepeating(<<1>>), ShaRepeating(<<12, 14, 0, 1>>) }

\* "100644", "100755", "40000"
TreeModes == { <<49, 48, 48, 54, 52, 52>>, <<49, 48, 48, 55, 53, 53>>,
               <<52, 48, 48, 48, 48>> }

\* "a", "b.c"
TreeNames == { <<97>>, <<98, 46, 99>> }

TreeLeaves == [mode : TreeModes, path : TreeNames, sha : TreeShas]

TreeInputs == UNION {[1..n -> TreeLeaves] : n \in 0..MaxLeaves}

(* The tree specification: serialize a list of leaves, parse the result.   *)

TreeIdle == [pc |-> "idle", leaves |-> <<>>, out |-> Err(""), parsed |-> Err("")]

InitTree ==
    /\ tr \in {[TreeIdle EXCEPT !.pc = "serialize", !.leaves = l] : l \in TreeInputs}
    /\ kv = KvlmIdle
    /\ ix = IndexIdle
    /\ sha1 = <<>>
    /\ digests = <<>>
    /\ RepoUnused

TreeSerialize ==
    /\ tr.pc = "serialize"
    /\ tr' = [tr EXCEPT !.out = tree_serialize(tr.leaves), !.pc = "parse"]
    /\ UNCHANGED <<kv, ix, sha1, digests, repoVars>>

TreeParse ==
    /\ tr.pc = "parse"
    /\ tr.out.err = ""
    /\ tr' = [tr EXCEPT !.parsed = tree_parse(tr.out.val), !.pc = "done"]
    /\ UNCHANGED <<kv, ix, sha1, digests, repoVars>>

NextTree == TreeSerialize \/ TreeParse

SpecTree == InitTree /\ [][NextTree]_vars

----------------------------------------------------------------------------
(* SHA-1.  The model does not compute SHA-1: `sha1` holds the digests of   *)
(* the byte strings hashed so far, as hashlib.sha1(data).hexdigest() gives *)
(* them.  `digests` lists the digests in the order in which SHA-1 hands    *)
(* them to byte strings not hashed before; SHA-1 is taken to be free of    *)
(* collisions, so no digest is handed out twice.                           *)

\* Digests whose hex form survives tree_parse_one (one decimal digit after
\* the leading zeros), digests made of decimal digits only, and digests with
\* the digits a-f.
ShaDigit(d) == ShaEnding(<<d>>)

ShaOrders ==
    { <<ShaDigit(7), ShaDigit(1), ShaDigit(2), ShaDigit(3), ShaDigit(4), ShaDigit(5),
        ShaDigit(6), ShaDigit(8), ShaDigit(9)>>,
      <<ShaRepeating(<<1>>), ShaDigit(1), ShaRepeating(<<12, 14, 0, 1>>), ShaDigit(3),
        ShaDigit(4), ShaDigit(5), ShaEnding(<<1, 0>>), ShaDigit(8), ShaDigit(9)>>,
      <<ShaRepeating(<<12, 14, 0, 1>>), ShaEnding(<<10, 11>>), ShaDigit(2),
        ShaRepeating(<<1>>), ShaDigit(4), ShaDigit(5), ShaDigit(6), ShaDigit(8),
        ShaDigit(9)>> }

Range(f) == {f[x] : x \in DOMAIN f}

\* The digests not yet handed out.
Sha1Unused(table) == {i \in 1..Len(digests) : digests[i] \notin Range(table)}

\* The digests hashlib.sha1(data).hexdigest() may return, given table.
Sha1Choices(table, data) ==
    IF data \in DOMAIN table THEN {table[data]}
    ELSE IF Sha1Unused(table) = {} THEN {}
    ELSE {digests[MinOf(Sha1Unused(table))]}

\* The table once data was hashed to d.
Sha1Record(table, data, d) ==
    IF data \in DOMAIN table THEN table ELSE (data :> d) @@ table

\* bytes.fromhex(hexdigest), the 20 raw bytes of .digest()
bytes_fromhex(h) == [i \in 1..(Len(h) \div 2) |-> 16 * HexVal(h[2 * i - 1]) + HexVal(h[2 * i])]

\* binascii.hexlify(bs)
hexlify(bs) == Concat([i \in 1..Len(bs) |-> <<HexChr(bs[i] \div 16), HexChr(bs[i] % 16)>>])

----------------------------------------------------------------------------
(* The index codec.                                                        *)

ENTRY_LENGTH == 62
HEADER_LENGTH == 12
CHECKSUM_LENGTH == 20
PADDING == 8

\* b'DIRC'
DIRC == <<68, 73, 82, 67>>

\* struct's "L" and "H", network byte order.  The model's values stay below
\* 2^31.
U32(n) == <<n \div 16777216, (n \div 65536) % 256, (n \div 256) % 256, n % 256>>

U16(n) == <<n \div 256, n % 256>>

FromU32(bs) == ((bs[1] * 256 + bs[2]) * 256 + bs[3]) * 256 + bs[4]

FromU16(bs) == bs[1] * 256 + bs[2]

\* struct's "20s": cut or NUL-padded to 20 bytes.
Pack20s(bs) == [i \in 1..CHECKSUM_LENGTH |-> IF i <= Len(bs) THEN bs[i] ELSE NUL]

S_IFMT(mode) == ((mode \div 4096) % 16) * 4096

cleanup_mode(mode) ==
    IF S_IFMT(mode) = 40960 THEN 40960              \* S_ISLNK: S_IFLNK, 0o120000
    ELSE IF S_IFMT(mode) = 16384 THEN 16384         \* S_ISDIR: S_IFDIR, 0o040000
    ELSE IF S_IFMT(mode) = 57344 THEN 57344         \* S_ISGITLINK: 0o160000
    ELSE 32768 + 420 + (IF (mode \div 64) % 2 = 1 THEN 73 ELSE 0)
                                                    \* S_IFREG | 0o644 (| 0o111)

\* GitIndexEntry(...): the fields given and the ones derived from them.
GitIndexEntry(ctime_s, ctime_n, mtime_s, mtime_n, dev, ino, mode, uid, gid, size, sha, flags, path) ==
    IF Len(hexlify(sha)) # 40 THEN Err("AssertionError")
    ELSE Ok([ctime |-> <<ctime_s, ctime_n>>, mtime |-> <<mtime_s, mtime_n>>,
             dev |-> dev, ino |-> ino, mode |-> mode, uid |-> uid, gid |-> gid,
             size |-> size, obj |-> sha, flags |-> flags,
             flag_stage |-> (flags \div 4096) % 4, name |-> path,
             clean_mode |-> cleanup_mode(mode), hex_sha |-> hexlify(sha)])

\* pad_to_multiple rounding up to the next multiple, a multiple staying as it
\* is: the entry length of the index format, without write_index's extra NUL.
pad_to_multiple_exact(n, multiple) == ((n + multiple - 1) \div multiple) * multiple

pad_to_multiple(n, multiple) == ((n + multiple) \div multiple) * multiple

\* struct.pack(ENTRY_FORMAT, ...) followed by the path and its padding.
pack_entry(entry) ==
    LET entry_head == U32(entry.ctime[1]) \o U32(entry.ctime[2])
                      \o U32(entry.mtime[1]) \o U32(entry.mtime[2])
                      \o U32(entry.dev) \o U32(entry.ino) \o U32(entry.mode)
                      \o U32(entry.uid) \o U32(entry.gid) \o U32(entry.size)
                      \o Pack20s(entry.obj) \o U16(entry.flags)
        path == entry.name
        length == ((62 + Len(path) + 8) \div 8) * 8
    IN entry_head \o path \o [i \in 1..(length - 62 - Len(path)) |-> NUL]

\* The bytes write_index hashes: the header and the packed entries.
index_all_data(entries) ==
    DIRC \o U32(2) \o U32(Len(entries))
         \o Concat([i \in 1..Len(entries) |-> pack_entry(entries[i])])

\* The index file write_index writes, digest being the hex sha1 of all_data.
index_file(entries, digest) == index_all_data(entries) \o bytes_fromhex(digest)

\* The k-th 32-bit field of the entry at position i.
entry_field(entry_data, i, k) == FromU32(Slice(entry_data, i + 4 * k, i + 4 * k + 4))

\* The entry struct.unpack and the path give, at position i.
entry_at(entry_data, i, path_end) ==
    GitIndexEntry(entry_field(entry_data, i, 0), entry_field(entry_data, i, 1),
                  entry_field(entry_data, i, 2), entry_field(entry_data, i, 3),
                  entry_field(entry_data, i, 4), entry_field(entry_data, i, 5),
                  entry_field(entry_data, i, 6), entry_field(entry_data, i, 7),
                  entry_field(entry_data, i, 8), entry_field(entry_data, i, 9),
                  Slice(entry_data, i + 40, i + 60),
                  FromU16(Slice(entry_data, i + 60, i + 62)),
                  Slice(entry_data, i + ENTRY_LENGTH, path_end))

\* The loop running only while more than an entry of the least length, 64
\* bytes, is left.
index_loop_runs_late(i, n) == i + ENTRY_LENGTH + 2 < n

\* while i + ENTRY_LENGTH < len(entry_data)
index_loop_runs(i, n) == i + ENTRY_LENGTH < n

\* The loop of read_index over entry_data, from position i.
RECURSIVE read_index_entries(_, _, _)
read_index_entries(entry_data, i, entries) ==
    IF ~index_loop_runs(i, Len(entry_data)) THEN Ok(entries)
    ELSE With(Find(entry_data, NUL, i + ENTRY_LENGTH), LAMBDA path_end :
         IF path_end < 0 THEN Err("ValueError")
         ELSE Try(entry_at(entry_data, i, path_end), LAMBDA e :
              read_index_entries(entry_data,
                  i + pad_to_multiple(ENTRY_LENGTH + (path_end - (i + ENTRY_LENGTH)),
                                      PADDING),
                  Append(entries, e))))

\* read_index_data without the check of the version.
read_index_data_any_version(data, digest) ==
    IF bytes_fromhex(digest) # Slice(data, 0 - CHECKSUM_LENGTH, Len(data))
    THEN Err("AssertionError: invalid index checksum")
    ELSE IF Len(Slice(data, 0, HEADER_LENGTH)) # HEADER_LENGTH THEN Err("struct.error")
    ELSE IF Slice(data, 0, 4) # DIRC THEN Err("AssertionError: invalid index signature")
    ELSE Try(read_index_entries(Slice(data, HEADER_LENGTH, 0 - CHECKSUM_LENGTH), 0, <<>>),
             LAMBDA entries :
             IF Len(entries) # FromU32(Slice(data, 8, 12)) THEN Err("AssertionError")
             ELSE Ok(entries))

\* read_index on the bytes of the index file; digest is the hex sha1 of
\* data[:-20].  A missing file is handled by the caller.
read_index_data(data, digest) ==
    IF bytes_fromhex(digest) # Slice(data, 0 - CHECKSUM_LENGTH, Len(data))
    THEN Err("AssertionError: invalid index checksum")
    ELSE IF Len(Slice(data, 0, HEADER_LENGTH)) # HEADER_LENGTH THEN Err("struct.error")
    ELSE IF Slice(data, 0, 4) # DIRC THEN Err("AssertionError: invalid index signature")
    ELSE IF FromU32(Slice(data, 4, 8)) # 2
    THEN Err("AssertionError: unknown index version")
    ELSE Try(read_index_entries(Slice(data, HEADER_LENGTH, 0 - CHECKSUM_LENGTH), 0, <<>>),
             LAMBDA entries :
             IF Len(entries) # FromU32(Slice(data, 8, 12)) THEN Err("AssertionError")
             ELSE Ok(entries))

\* The bytes read_index hashes.
index_hashed(data) == Slice(data, 0, 0 - CHECKSUM_LENGTH)


----------------------------------------------------------------------------
(* The entries the index specification starts from: up to MaxEntries       *)
(* entries, in any order, with names whose padded lengths differ.          *)

MaxEntries == 2

\* "a", "bb", "c/d.txt123"
IndexNames == { <<97>>, <<98, 98>>, <<99, 47, 100, 46, 116, 120, 116, 49, 50, 51>> }

IndexEntries ==
    { GitIndexEntry(1, 2, 3, 4, 5, 6, mode, 7, 8, 9, bytes_fromhex(h), Len(name),
                    name).val :
        mode \in {33188, 33261}, h \in {ShaEnding(<<7>>), ShaRepeating(<<12, 14, 0, 1>>)},
        name \in IndexNames }

IndexInputs == UNION {[1..n -> IndexEntries] : n \in 0..MaxEntries}

(* The index specification: write a list of entries, read the file back.   *)

InitIndex ==
    /\ ix \in {[IndexIdle EXCEPT !.pc = "write", !.entries = l] : l \in IndexInputs}
    /\ sha1 = <<>>
    /\ digests \in ShaOrders
    /\ kv = KvlmIdle
    /\ tr = TreeIdle
    /\ RepoUnused

IndexWrite ==
    /\ ix.pc = "write"
    /\ \E d \in Sha1Choices(sha1, index_all_data(ix.entries)) :
         /\ ix' = [ix EXCEPT !.file = index_file(ix.entries, d), !.pc = "read"]
         /\ sha1' = Sha1Record(sha1, index_all_data(ix.entries), d)
    /\ UNCHANGED <<kv, tr, digests, repoVars>>

IndexRead ==
    /\ ix.pc = "read"
    /\ \E d \in Sha1Choices(sha1, index_hashed(ix.file)) :
         /\ ix' = [ix EXCEPT !.read = read_index_data(ix.file, d), !.pc = "done"]
         /\ sha1' = Sha1Record(sha1, index_hashed(ix.file), d)
    /\ UNCHANGED <<kv, tr, digests, repoVars>>

NextIndex == IndexWrite \/ IndexRead

SpecIndex == InitIndex /\ [][NextIndex]_vars

----------------------------------------------------------------------------
(* The object store.  `objects` maps the path of an object file below      *)
(* .git/objects, <<sha[0:2], sha[2:]>>, to the bytes of the file.          *)

\* b'blob', b'tree', b'commit', b'tag'
FmtBlob == <<98, 108, 111, 98>>

FmtTree == <<116, 114, 101, 101>>

FmtCommit == <<99, 111, 109, 109, 105, 116>>

FmtTag == <<116, 97, 103>>

\* str(n), for 0 <= n < 10^9
DecStr(n) ==
    LET k == MinOf({j \in 1..9 : n < 10 ^ j})
    IN [i \in 1..k |-> 48 + ((n \div (10 ^ (k - i))) % 10)]

\* '{:o}'.format(n), for 0 <= n < 8^9
OctStr(n) ==
    LET k == MinOf({j \in 1..9 : n < 8 ^ j})
    IN [i \in 1..k |-> 48 + ((n \div (8 ^ (k - i))) % 8)]

\* str.strip(): blanks and newlines dropped at both ends
Strip(bs) ==
    LET nb == {i \in 1..Len(bs) : bs[i] \notin {SP, NL}}
    IN IF nb = {} THEN <<>> ELSE SubSeq(bs, MinOf(nb), MaxOf(nb))

\* The value of the first i decimal digits of ds.
RECURSIVE DecSum(_, _)
DecSum(ds, i) == IF i = 0 THEN 0 ELSE 10 * DecSum(ds, i - 1) + (ds[i] - 48)

\* int(bs.decode("ascii")): surrounding blanks are dropped, the rest must be
\* decimal digits.  The values stay below 10^9.
IntOfAscii(bs) ==
    With(Strip(bs), LAMBDA ds :
        IF ds = <<>> \/ Len(ds) > 9 \/ \E i \in 1..Len(ds) : ~IsDecChar(ds[i])
        THEN Err("ValueError")
        ELSE Ok(DecSum(ds, Len(ds))))

\* zlib.compress and zlib.decompress.  Deflate itself is not modelled: a
\* compressed stream is the two bytes of the zlib header, 0x78 0x9c, followed
\* by the data, and a stream without the header does not decompress.
zlib_compress(data) == <<120, 156>> \o data

zlib_decompress(bs) ==
    IF Len(bs) >= 2 /\ SubSeq(bs, 1, 2) = <<120, 156>>
    THEN Ok(SubSeq(bs, 3, Len(bs)))
    ELSE Err("zlib.error")

\* sha[0:2] once more, in the place of sha[2:].
object_slice_prefix(sha) == Slice(sha, 0, 2)

\* sha[2:]
object_slice_rest(sha) == Slice(sha, 2, Len(sha))

\* repo_file(repo, "objects", sha[0:2], sha[2:])
object_path(sha) == <<Slice(sha, 0, 2), object_slice_rest(sha)>>

\* open(path, "ab"): the bytes are added to what the file holds.
open_ab_write(store, path, content) ==
    IF path \in DOMAIN store THEN [store EXCEPT ![path] = @ \o content]
    ELSE (path :> content) @@ store

\* open(path, "wb") and write: the file then holds content, whatever it held.
open_wb_write(store, path, content) == (path :> content) @@ store

\* obj.deserialize(data), by kind
deserialize(fmt, data) ==
    IF fmt = FmtCommit \/ fmt = FmtTag THEN kvlm_parse(data)
    ELSE IF fmt = FmtTree THEN tree_parse(data)
    ELSE Ok(data)

\* obj.serialize(), by kind
serialize(fmt, obj) ==
    IF fmt = FmtCommit \/ fmt = FmtTag THEN kvlm_serialize(obj)
    ELSE IF fmt = FmtTree THEN tree_serialize(obj)
    ELSE Ok(obj)

\* The bytes object_write hashes and stores: header and data.
object_result(fmt, data) == fmt \o <<SP>> \o DecStr(Len(data)) \o <<NUL>> \o data

\* A failed call: the store and the digests are as before.
Failed(w, e) ==
    [err |-> e, ret |-> <<>>, objects |-> w.objects, sha1 |-> w.sha1, gitdir |-> w.gitdir]

\* A call that returns v and leaves the world w.
Returned(w, v) ==
    [err |-> "", ret |-> v, objects |-> w.objects, sha1 |-> w.sha1, gitdir |-> w.gitdir]

\* The rest F of a computation, run in the world r and on r.ret, the value
\* returned, unless the call that gave r has failed.
Then(r, F(_)) == IF r.err # "" THEN r ELSE F(r)

\* The end of object_write: result is hashed and, with actually_write,
\* stored.
object_store(w, result, actually_write) ==
    With(CHOOSE d \in Sha1Choices(w.sha1, result) : TRUE, LAMBDA sha :
        [err |-> "", ret |-> sha,
         objects |-> IF actually_write
                     THEN open_wb_write(w.objects, object_path(sha),
                                        zlib_compress(result))
                     ELSE w.objects,
         sha1 |-> Sha1Record(w.sha1, result, sha),
         gitdir |-> w.gitdir])

\* object_write(obj, actually_write) in the world w = [objects, sha1, gitdir]:
\* the object files, the digests and the other files of .git.  The result
\* holds the sha returned and the world after the call.
object_write(w, fmt, obj, actually_write) ==
    With(serialize(fmt, obj), LAMBDA data :
        IF data.err # "" THEN Failed(w, data.err)
        ELSE object_store(w, object_result(fmt, data.val), actually_write))

\* generic_object_hash(fd, fmt, repo), data being fd.read() and write telling
\* whether repo is given.
generic_object_hash(w, data, fmt, write) ==
    IF fmt \notin {FmtCommit, FmtTree, FmtTag, FmtBlob} THEN Failed(w, "ValueError")
    ELSE With(deserialize(fmt, data), LAMBDA obj :
         IF obj.err # "" THEN Failed(w, obj.err)
         ELSE object_write(w, fmt, obj.val, write))

\* zlib_read(path)
zlib_read(store, path) ==
    IF path \notin DOMAIN store THEN Err("FileNotFoundError")
    ELSE zlib_decompress(store[path])

\* The raw bytes every reader starts from: repo_file gives no path, and the
\* assertion fails, unless the directory objects/sha[0:2] is there.
object_raw(store, sha) ==
    IF \A p \in DOMAIN store : p[1] # Slice(sha, 0, 2) THEN Err("AssertionError")
    ELSE zlib_read(store, object_path(sha))

\* The head of every reader: the kind and the payload of the raw bytes, the
\* size being checked.
object_header(raw) ==
    With(Find(raw, SP, 0), LAMBDA x :
    With(Find(raw, NUL, x), LAMBDA y :
    Try(IntOfAscii(Slice(raw, x, y)), LAMBDA size :
        IF size # Len(raw) - y - 1 THEN Err("ValueError: bad length")
        ELSE Ok([fmt |-> Slice(raw, 0, x), data |-> Slice(raw, y + 1, Len(raw))]))))

\* A typed reader: the objects of kind `accepts` are read, the others
\* raise GitObjectTypeError.
typed_read(store, sha, accepts, as) ==
    Try(object_raw(store, sha), LAMBDA raw :
    Try(object_header(raw), LAMBDA h :
        IF h.fmt # accepts THEN Err("GitObjectTypeError")
        ELSE deserialize(as, h.data)))

generic_object_read(store, sha) ==
    Try(object_raw(store, sha), LAMBDA raw :
    Try(object_header(raw), LAMBDA h :
        IF h.fmt \notin {FmtCommit, FmtTree, FmtTag, FmtBlob}
        THEN Err("ValueError: unknown type")
        ELSE Try(deserialize(h.fmt, h.data), LAMBDA obj :
                 Ok([fmt |-> h.fmt, obj |-> obj]))))

commit_read(store, sha) == typed_read(store, sha, FmtCommit, FmtCommit)

\* tree_read accepts the objects of kind blob, and parses them as trees.
tree_read(store, sha) == typed_read(store, sha, FmtBlob, FmtTree)

blob_read(store, sha) == typed_read(store, sha, FmtBlob, FmtBlob)

object_get_type(store, sha) ==
    Try(object_raw(store, sha), LAMBDA raw :
        Ok(Slice(raw, 0, Find(raw, SP, 0))))


----------------------------------------------------------------------------
(* The other files of .git: `gitdir` maps a path below .git (HEAD, index,  *)
(* refs/heads/master, ...) to the bytes of the file.                       *)

\* "HEAD", "index", "refs/heads/master", "refs/heads/", "refs/tags/", "refs/"
HEAD == <<72, 69, 65, 68>>

IndexPath == <<105, 110, 100, 101, 120>>

MasterPath == <<114, 101, 102, 115, 47, 104, 101, 97, 100, 115, 47, 109, 97, 115, 116, 101, 114>>

RefsHeads == <<114, 101, 102, 115, 47, 104, 101, 97, 100, 115, 47>>

RefsTags == <<114, 101, 102, 115, 47, 116, 97, 103, 115, 47>>

Refs == <<114, 101, 102, 115, 47>>

\* "ref: "
RefPrefix == <<114, 101, 102, 58, 32>>

\* .git as repo_create leaves it: HEAD names the branch master, there is no
\* index and no ref.
repo_create == (HEAD :> (RefPrefix \o MasterPath \o <<NL>>))

\* bs.startswith(prefix)
StartsWith(bs, prefix) == Len(bs) >= Len(prefix) /\ SubSeq(bs, 1, Len(prefix)) = prefix

\* ref_resolve(repo, ref).  `seen` holds the refs of the calls this one is
\* nested in: a ref that names one of them is resolved for ever, until
\* Python's recursion limit.
RECURSIVE ref_resolve_from(_, _, _)
ref_resolve_from(files, ref, seen) ==
    IF ref \notin DOMAIN files THEN Err("FileNotFoundError")
    ELSE With(Slice(files[ref], 0, -1), LAMBDA data :
         IF ~StartsWith(data, RefPrefix) THEN Ok(data)
         ELSE IF ref \in seen THEN Err("RecursionError")
         ELSE ref_resolve_from(files, Slice(data, 5, Len(data)), seen \cup {ref}))

ref_resolve(files, ref) == ref_resolve_from(files, ref, {})

\* One call of ref_resolve(repo, ref), up to its return or to the call it
\* makes: what it raises or returns, or in `next` the ref it calls itself
\* with.
ref_resolve_call(files, ref) ==
    IF ref \notin DOMAIN files
    THEN [err |-> "FileNotFoundError", val |-> <<>>, calls |-> FALSE, next |-> <<>>]
    ELSE With(Slice(files[ref], 0, -1), LAMBDA data :
         IF StartsWith(data, RefPrefix)
         THEN [err |-> "", val |-> <<>>, calls |-> TRUE, next |-> Slice(data, 5, Len(data))]
         ELSE [err |-> "", val |-> data, calls |-> FALSE, next |-> <<>>])

\* ref_create(repo, ref_name, sha)
ref_create(files, ref_name, sha) == open_wb_write(files, Refs \o ref_name, sha \o <<NL>>)

\* name.lower()
Lower(name) == [i \in 1..Len(name) |-> IF name[i] \in 65..90 THEN name[i] + 32 ELSE name[i]]

\* str(repo.gitdir), the repository being GitRepository("."): ".git"
GitDir == <<46, 103, 105, 116>>

\* str(f) for the object file f that path.iterdir() gives: the path of the
\* file from repo.gitdir on, ".git/objects/<prefix>/<name>".
object_file_str(p) ==
    GitDir \o <<47, 111, 98, 106, 101, 99, 116, 115, 47>> \o p[1] \o <<47>> \o p[2]

\* The elements of the set S in a list: iterdir() gives the files in an
\* order of its own.
RECURSIVE ListOf(_)
ListOf(S) == IF S = {} THEN <<>> ELSE With(CHOOSE x \in S : TRUE, LAMBDA x :
                 <<x>> \o ListOf(S \ {x}))

\* The candidates a short hash adds: for the files f of the directory
\* objects/<prefix> with str(f).startswith(rem), prefix + str(f).
short_hash_candidates(store, name) ==
    ListOf({Slice(name, 0, 2) \o object_file_str(p) :
              p \in {q \in DOMAIN store :
                        /\ q[1] = Slice(name, 0, 2)
                        /\ StartsWith(object_file_str(q), Slice(name, 2, Len(name)))}})

\* The branches only.
ref_paths_heads(name) == <<RefsHeads \o name>>

\* The refs object_resolve looks a name up in, in its order.
ref_paths(name) == <<RefsHeads \o name, RefsTags \o name, Refs \o name, name>>

RECURSIVE resolve_refs(_, _, _, _)
resolve_refs(files, paths, i, candidates) ==
    IF i > Len(paths) THEN Ok(candidates)
    ELSE IF paths[i] \notin DOMAIN files THEN resolve_refs(files, paths, i + 1, candidates)
    ELSE Try(ref_resolve(files, paths[i]), LAMBDA sha :
             resolve_refs(files, paths, i + 1, Append(candidates, sha)))

\* hashRE and smallHashRE
IsHash(name) == \A i \in 1..Len(name) : IsHexChar(name[i])

\* object_resolve(repo, name)
object_resolve(w, name) ==
    IF Strip(name) = <<>> THEN Ok(<<>>)
    ELSE IF name = HEAD
    THEN Try(ref_resolve(w.gitdir, HEAD), LAMBDA sha : Ok(<<sha>>))
    ELSE IF IsHash(name) /\ Len(name) = ShaHexLen THEN Ok(<<Lower(name)>>)
    ELSE IF IsHash(name) /\ Len(name) >= 4 /\ Len(name) < ShaHexLen
    THEN resolve_refs(w.gitdir, ref_paths(Lower(name)), 1,
                      short_hash_candidates(w.objects, Lower(name)))
    ELSE resolve_refs(w.gitdir, ref_paths(name), 1, <<>>)

\* kvlm[key][0]
kvlm_first(kvlm, key) ==
    IF ~DictHas(kvlm, key) THEN Err("KeyError") ELSE Ok(DictGet(kvlm, key)[1])

\* The loop of object_find from sha on: the sha of an object of kind fmt is
\* returned; a tag is followed to its object and, when a tree is looked for,
\* a commit to its tree, both read with commit_read; None is <<>>.  `fuel`
\* is the number of objects: a longer walk meets an object twice and does
\* not end.
RECURSIVE object_follow(_, _, _, _, _)
object_follow(store, sha, fmt, follow, fuel) ==
    Try(object_get_type(store, sha), LAMBDA obj_fmt :
        IF obj_fmt = fmt THEN Ok(sha)
        ELSE IF ~follow THEN Ok(<<>>)
        ELSE IF fuel = 0 THEN Err("loops")
        ELSE Try(commit_read(store, sha), LAMBDA commit :
             IF obj_fmt = FmtTag
             THEN Try(kvlm_first(commit, <<111, 98, 106, 101, 99, 116>>), LAMBDA object :
                      object_follow(store, object, fmt, follow, fuel - 1))
             ELSE IF obj_fmt = FmtCommit /\ fmt = FmtTree
             THEN Try(kvlm_first(commit, FmtTree), LAMBDA tree :
                      object_follow(store, tree, fmt, follow, fuel - 1))
             ELSE Ok(<<>>)))

\* object_find taking the first of several candidates.
object_find_first(w, name, fmt, follow) ==
    Try(object_resolve(w, name), LAMBDA all_shas :
        IF all_shas = <<>> THEN Err("ValueError: No such reference")
        ELSE IF fmt = <<>> THEN Ok(all_shas[1])
        ELSE object_follow(w.objects, all_shas[1], fmt, follow,
                           Cardinality(DOMAIN w.objects)))

\* object_find(repo, name, fmt, follow); fmt is <<>> where no kind is given.
\* The error of an ambiguous name holds the candidates its message lists.
object_find(w, name, fmt, follow) ==
    Try(object_resolve(w, name), LAMBDA all_shas :
        IF all_shas = <<>> THEN Err("ValueError: No such reference")
        ELSE IF Len(all_shas) > 1
        THEN [err |-> "ValueError: Ambiguous reference", val |-> all_shas]
        ELSE IF fmt = <<>> THEN Ok(all_shas[1])
        ELSE object_follow(w.objects, all_shas[1], fmt, follow,
                           Cardinality(DOMAIN w.objects)))


----------------------------------------------------------------------------
(* Staging.  The working directory holds the files of Worktree; a file is  *)
(* its bytes and what stat() tells about it.                               *)

\* "a" holds "x\n", "b" is executable and holds "y\n", "c" may be written by
\* its group (mode 0664) and holds "x\n" too, "d/f" holds "z\n".
Worktree ==
    (<<97>> :> [data |-> <<120, NL>>, st_mode |-> 33188, st_ino |-> 11, st_mtime |-> 5])
    @@ (<<98>> :> [data |-> <<121, NL>>, st_mode |-> 33261, st_ino |-> 12, st_mtime |-> 6])
    @@ (<<99>> :> [data |-> <<120, NL>>, st_mode |-> 33204, st_ino |-> 13, st_mtime |-> 7])
    @@ (<<100, 47, 102>> :> [data |-> <<122, NL>>, st_mode |-> 33188, st_ino |-> 14, st_mtime |-> 8])

\* The end of read_index: data is hashed and parsed.
read_index_checked(w, data, digest) ==
    With(read_index_data(data, digest), LAMBDA r :
        [err |-> r.err, ret |-> r.val, objects |-> w.objects,
         sha1 |-> Sha1Record(w.sha1, index_hashed(data), digest), gitdir |-> w.gitdir])

\* read_index() in the world w: no index file gives no entries.
read_index(w) ==
    IF IndexPath \notin DOMAIN w.gitdir THEN Returned(w, <<>>)
    ELSE read_index_checked(w, w.gitdir[IndexPath],
             CHOOSE d \in Sha1Choices(w.sha1, index_hashed(w.gitdir[IndexPath])) : TRUE)

\* write_index(entries) in the world w
write_index(w, entries) ==
    With(CHOOSE d \in Sha1Choices(w.sha1, index_all_data(entries)) : TRUE, LAMBDA digest :
        [err |-> "", ret |-> <<>>, objects |-> w.objects,
         sha1 |-> Sha1Record(w.sha1, index_all_data(entries), digest),
         gitdir |-> open_wb_write(w.gitdir, IndexPath, index_file(entries, digest))])

\* blob_hash(fd, repo): the file's bytes written as a blob object.
blob_hash(w, data, write) == object_write(w, FmtBlob, data, write)

\* hash_object(path, write, fmt)
hash_object(w, path, write) ==
    IF path \notin DOMAIN Worktree THEN Failed(w, "FileNotFoundError")
    ELSE blob_hash(w, Worktree[path].data, write)

\* The entry add_path builds from stat() and the sha of the blob.
stat_entry(path, st, sha) ==
    GitIndexEntry(st.st_mtime, 0, st.st_mtime, 0, 1, st.st_ino, st.st_mode, 1000, 1000,
                  Len(st.data), bytes_fromhex(sha), Len(path), path)

\* add_path(path): the result holds the entry and the world after the call.
add_path(w, path) ==
    Then(hash_object(w, path, TRUE), LAMBDA h :
        IF Len(path) >= 4096 THEN Failed(h, "AssertionError")
        ELSE With(stat_entry(path, Worktree[path], h.ret), LAMBDA entry :
             IF entry.err # "" THEN Failed(h, entry.err) ELSE Returned(h, entry.val)))

\* a < b as Python orders str and bytes: by the first differing element, a
\* proper prefix first.
BytesLess(a, b) ==
    \E i \in 1..(Len(b)) :
        /\ \A j \in 1..(i - 1) : j <= Len(a) /\ a[j] = b[j]
        /\ (i > Len(a) \/ (i <= Len(a) /\ a[i] < b[i]))
        /\ i - 1 <= Len(a)

\* e.name == path, e.name being a str and path a pathlib.Path: neither type
\* compares itself with the other, and == falls back to identity.
str_eq_path(name, path) == FALSE

\* e.name in paths
name_in_paths(name, paths) == \E i \in 1..Len(paths) : str_eq_path(name, paths[i])

\* [e for e in all_entries if e.name not in paths]
entries_not_in(all_entries, paths) ==
    SelectSeq(all_entries, LAMBDA e : ~name_in_paths(e.name, paths))

\* The entries that sort before the entry at i: the ones with a smaller name
\* and, the sort being stable, the earlier ones with the same name.
sorts_before(entries, i) ==
    {j \in 1..Len(entries) : \/ BytesLess(entries[j].name, entries[i].name)
                             \/ (entries[j].name = entries[i].name /\ j < i)}

\* entries.sort(key=operator.attrgetter('name')): a stable sort, the entry at
\* i comes after the ones with a smaller name and the earlier ones with the
\* same name.
sort_by_name(entries) ==
    [k \in 1..Len(entries) |->
       entries[CHOOSE i \in 1..Len(entries) : Cardinality(sorts_before(entries, i)) = k - 1]]

\* The loop of add_all over paths, from the i-th one; the paths are files.
RECURSIVE add_paths(_, _, _, _)
add_paths(w, paths, i, entries) ==
    IF i > Len(paths) THEN Returned(w, entries)
    ELSE Then(add_path(w, paths[i]), LAMBDA r :
              add_paths(r, paths, i + 1, Append(entries, r.ret)))

\* add_all with the index file opened for writing, and so emptied, before
\* the paths are processed.
add_all_open_first(w, paths) ==
    Then(read_index(w), LAMBDA all_entries :
    With(add_paths(all_entries, paths, 1, entries_not_in(all_entries.ret, paths)),
         LAMBDA added :
         IF added.err # ""
         THEN [added EXCEPT !.gitdir = open_wb_write(added.gitdir, IndexPath, <<>>)]
         ELSE write_index(added, sort_by_name(added.ret))))

\* add_all(paths)
add_all(w, paths) ==
    Then(read_index(w), LAMBDA all_entries :
    Then(add_paths(all_entries, paths, 1, entries_not_in(all_entries.ret, paths)),
         LAMBDA added : write_index(added, sort_by_name(added.ret))))


----------------------------------------------------------------------------
(* Trees, commits, tags and checkout.                                      *)

\* tree_hash(fd, repo), data being fd.read()
tree_hash(w, data, write) ==
    With(deserialize(FmtTree, data), LAMBDA obj :
        IF obj.err # "" THEN Failed(w, obj.err)
        ELSE object_write(w, FmtTree, obj.val, write))

\* tree_write with the tree hashed and not stored.
tree_write_dry(w, idx) ==
    IF \E i \in 1..Len(idx) : \E j \in 1..Len(idx[i].name) : idx[i].name[j] = 47
    THEN Failed(w, "AssertionError")
    ELSE tree_hash(w, Concat([i \in 1..Len(idx) |->
                                OctStr(idx[i].mode) \o <<SP>> \o idx[i].name
                                  \o <<NUL>> \o idx[i].obj]),
                   FALSE)

\* tree_write(repo, idx) of frontend.py
tree_write(w, idx) ==
    IF \E i \in 1..Len(idx) : \E j \in 1..Len(idx[i].name) : idx[i].name[j] = 47
    THEN Failed(w, "AssertionError")
    ELSE tree_hash(w, Concat([i \in 1..Len(idx) |->
                                OctStr(idx[i].mode) \o <<SP>> \o idx[i].name
                                  \o <<NUL>> \o idx[i].obj]),
                   TRUE)

\* '{:02}'.format(n)
TwoDigits(n) == IF n < 10 THEN <<48>> \o DecStr(n) ELSE DecStr(n)

\* abs(n)
Abs(n) == IF n < 0 THEN 0 - n ELSE n

\* author_timestamp(), the clock giving timestamp and the zone utc_offset
author_timestamp(timestamp, utc_offset) ==
    DecStr(timestamp) \o <<SP>> \o (IF utc_offset > 0 THEN <<43>> ELSE <<45>>)
      \o TwoDigits(Abs(utc_offset) \div 3600) \o TwoDigits((Abs(utc_offset) \div 60) % 60)

\* No parent is read.
commit_parent_none(files) == <<>>

\* The parent commit() reads: the text of refs/heads/master, stripped, or
\* None (<<>>, which `if parent` treats like the empty text) without the file.
commit_parent(files) ==
    IF MasterPath \notin DOMAIN files THEN <<>> ELSE Strip(files[MasterPath])

\* The lines of the commit that commit() joins and encodes.
commit_data(sha_of_tree, parent, author, author_time, message) ==
    <<116, 114, 101, 101, 32>> \o sha_of_tree \o <<NL>>
      \o (IF parent # <<>> THEN <<112, 97, 114, 101, 110, 116, 32>> \o parent \o <<NL>> ELSE <<>>)
      \o <<97, 117, 116, 104, 111, 114, 32>> \o author \o <<SP>> \o author_time \o <<NL>>
      \o <<99, 111, 109, 109, 105, 116, 116, 101, 114, 32>> \o author \o <<SP>> \o author_time \o <<NL>>
      \o <<NL>> \o message \o <<NL>>

\* The steps of commit() with the ref moved before the objects are written.
commit_steps_ref_first == <<"index", "parent", "ref", "tree", "object", "done">>

\* The steps of commit() in the order of its statements: the index is read,
\* then the parent, the tree is written, then the commit object, then the
\* ref, and the call is done.
commit_steps == <<"index", "parent", "tree", "object", "ref", "done">>

\* The index is never taken for empty.
index_is_empty_never(index) == FALSE

\* len(index) == 0
index_is_empty(index) == Len(index) = 0

\* The step of commit() after the step pc.
commit_step_after(pc) ==
    commit_steps[(CHOOSE i \in 1..Len(commit_steps) : commit_steps[i] = pc) + 1]

\* The tag object tag_create builds.
tag_kvlm(sha, name) ==
    << <<<<111, 98, 106, 101, 99, 116>>, <<sha>> >>,
       <<<<116, 121, 112, 101>>, <<FmtCommit>> >>,
       <<FmtTag, <<name>> >>,
       <<<<116, 97, 103, 103, 101, 114>>, <<<<84, 104, 101, 32, 116, 97, 103, 103, 101, 114>>>> >>,
       << <<>>, <<<<84, 104, 105, 115, 32, 105, 115, 32, 116, 104, 101, 32, 99, 111, 109, 109, 105, 116, 32, 109, 101, 115, 115, 97, 103, 101, 32, 116, 104, 97, 116, 32, 115, 104, 111, 117, 108, 100, 32, 104, 97, 118, 101, 32, 99, 111, 109, 101, 32, 102, 114, 111, 109, 32, 116, 104, 101, 32, 117, 115, 101, 114, 10>>>> >> >>

\* "tags/" + name
TagRef(name) == <<116, 97, 103, 115, 47>> \o name

\* tag_create(repo, name, reference, create_tag_object)
tag_create(w, name, reference, create_tag_object) ==
    With(object_find(w, reference, <<>>, TRUE), LAMBDA sha :
        IF sha.err # "" THEN Failed(w, sha.err)
        ELSE IF create_tag_object
        THEN Then(object_write(w, FmtTag, tag_kvlm(sha.val, name), TRUE), LAMBDA t :
                  [Returned(t, <<>>) EXCEPT
                     !.gitdir = ref_create(t.gitdir, TagRef(name), t.ret)])
        ELSE [Returned(w, <<>>) EXCEPT
                !.gitdir = ref_create(w.gitdir, TagRef(name), sha.val)])

\* What a call has made in the destination when it raises err.
Raised(err, made) == [err |-> err, val |-> made]

\* tree_checkout(repo, tree, path): the files and directories made below
\* path, as a set of <<path, "dir">> and <<path, "file", bytes>>; a call that
\* raises gives what it had made by then.  A leaf that tree_read accepts
\* becomes a directory; for one it rejects with GitObjectTypeError the blob
\* is read.  depth bounds the nesting.
RECURSIVE tree_checkout(_, _, _, _)
RECURSIVE leaf_checkout(_, _, _, _)
\* The body of the loop of tree_checkout, for the leaf item: what tree_read
\* accepts becomes the directory dest; GitObjectTypeError, from tree_read or
\* from below dest, is caught and the leaf is read as a blob and written to
\* dest, which fails where dest is a directory by then.
leaf_checkout(store, item, dest, depth) ==
    With(tree_read(store, item.sha), LAMBDA tree :
        IF tree.err = "GitObjectTypeError"
        THEN With(blob_read(store, item.sha), LAMBDA blob :
                  IF blob.err # "" THEN Raised(blob.err, {})
                  ELSE Ok({<<dest, "file", blob.val>>}))
        ELSE IF tree.err # "" THEN Raised(tree.err, {})
        ELSE IF depth = 0 THEN Raised("RecursionError", {<<dest, "dir">>})
        ELSE With(tree_checkout(store, tree.val, dest, depth - 1), LAMBDA sub :
             IF sub.err = "GitObjectTypeError"
             THEN With(blob_read(store, item.sha), LAMBDA blob :
                       Raised(IF blob.err # "" THEN blob.err ELSE "IsADirectoryError",
                              {<<dest, "dir">>} \cup sub.val))
             ELSE Raised(sub.err, {<<dest, "dir">>} \cup sub.val)))

tree_checkout(store, items, path, depth) ==
    IF items = <<>> THEN Ok({})
    ELSE With(leaf_checkout(store, Head(items), path \o <<47>> \o Head(items).path, depth),
              LAMBDA here :
              IF here.err # "" THEN here
              ELSE With(tree_checkout(store, Tail(items), path, depth), LAMBDA rest :
                        Raised(rest.err, here.val \cup rest.val)))

\* The try block of cmd_checkout: GitObjectTypeError becomes ValueError.
checkout_tree(w, obj_sha) ==
    With(Try(commit_read(w.objects, obj_sha), LAMBDA commit_contents :
         Try(kvlm_first(commit_contents, FmtTree), LAMBDA tree_sha :
             tree_read(w.objects, tree_sha))),
         LAMBDA tree_contents :
         IF tree_contents.err = "GitObjectTypeError" THEN Err("ValueError: not a commit")
         ELSE tree_contents)

\* What args.path of cmd_checkout may be: not there, a directory that holds
\* nothing, a directory that holds something, a file.
CheckoutDests == { "absent", "empty", "nonempty", "file" }

\* The end of cmd_checkout: the path is verified, or made, and the tree is
\* checked out into it.
checkout_into(w, tree_contents, path, dest) ==
    IF dest = "file" THEN Raised("ValueError: Not a directory", {})
    ELSE IF dest = "nonempty" THEN Raised("ValueError: Not empty", {})
    ELSE With(tree_checkout(w.objects, tree_contents, path, Cardinality(DOMAIN w.objects)),
              LAMBDA made :
              Raised(made.err, IF dest = "absent" THEN {<<path, "dir">>} \cup made.val
                               ELSE made.val))

\* cmd_checkout(args), args.path being as dest tells: what is made in the
\* destination, and what is raised.
cmd_checkout(w, commit, path, dest) ==
    With(Try(object_find(w, commit, <<>>, TRUE), LAMBDA obj_sha : checkout_tree(w, obj_sha)),
         LAMBDA tree_contents :
         IF tree_contents.err # "" THEN Raised(tree_contents.err, {})
         ELSE checkout_into(w, tree_contents.val, path, dest))

\* cmd_rev_parse(args): fmt is bound only where args.type is given.
cmd_rev_parse(w, name, type) ==
    IF type = <<>> THEN Err("UnboundLocalError")
    ELSE object_find(w, name, type, TRUE)


----------------------------------------------------------------------------
(* The object specification: hash-object -w of a payload, of another one   *)
(* or not, of the first payload again, and a read of the first sha.        *)

MaxPayloadLeaves == 1

\* The payloads of a tree: the serializations of up to MaxPayloadLeaves
\* leaves named "a".
TreePayloads ==
    { tree_serialize(l).val :
        l \in UNION {[1..n -> {f \in TreeLeaves : f.path = <<97>> /\ f.mode = <<49, 48, 48, 54, 52, 52>>}] :
                       n \in 0..MaxPayloadLeaves} }

\* The payloads of a commit or a tag: a commit as commit() writes it, one
\* with two parents, one whose two parent lines have another line between
\* them, and bytes that are no KVLM.
KvlmPayloads ==
    { commit_data(ShaDigit(3), <<>>, <<65>>, author_timestamp(1, 0), <<109>>),
      <<116, 114, 101, 101, 32>> \o ShaDigit(3) \o <<NL>> \o <<112, 97, 114, 101, 110, 116, 32>> \o ShaDigit(4) \o <<NL>>
        \o <<112, 97, 114, 101, 110, 116, 32>> \o ShaDigit(5) \o <<NL, NL, 109, NL>>,
      <<112, 97, 114, 101, 110, 116, 32>> \o ShaDigit(4) \o <<NL>> \o <<116, 114, 101, 101, 32>> \o ShaDigit(3) \o <<NL>>
        \o <<112, 97, 114, 101, 110, 116, 32>> \o ShaDigit(5) \o <<NL, NL, 109, NL>>,
      <<120>> }

BlobPayloads == { <<>>, <<120, NL>>, <<104, 105, NUL, 255>> }

ObjectInputs ==
    ({FmtBlob} \X BlobPayloads) \cup ({FmtTree} \X TreePayloads)
      \cup ({FmtCommit, FmtTag} \X KvlmPayloads)

\* The world of a call.
World == [objects |-> objects, sha1 |-> sha1, gitdir |-> gitdir]

\* Digests are left for n byte strings not hashed before.
HasDigests(n) == Cardinality(Sha1Unused(sha1)) >= n

InitObject ==
    /\ ob \in {[ObIdle EXCEPT !.pc = "write", !.fmt = i[1], !.data = i[2]] :
                 i \in ObjectInputs}
    /\ objects = <<>>
    /\ gitdir = repo_create
    /\ run = RunIdle
    /\ hist = HistNone
    /\ rf = RfIdle
    /\ fs = FsIdle
    /\ procs = <<>>
    /\ sha1 = <<>>
    /\ digests \in ShaOrders
    /\ kv = KvlmIdle
    /\ tr = TreeIdle
    /\ ix = IndexIdle

\* The object files and the digests after a call that gave r.
ObjectCalled(r) ==
    /\ objects' = r.objects
    /\ sha1' = r.sha1
    /\ UNCHANGED <<kv, tr, ix, digests, gitdir, run, hist, rf, fs, procs>>

ObjectWritten(r) ==
    /\ ObjectCalled(r)
    /\ ob' = IF r.err # "" THEN [ob EXCEPT !.pc = "failed", !.second.err = r.err]
             ELSE [ob EXCEPT !.pc = "other", !.first = r.ret,
                             !.file = r.objects[object_path(r.ret)]]

\* cmd_hash_object with -w, for the first time
ObjectWrite ==
    /\ ob.pc = "write"
    /\ ObjectWritten(generic_object_hash(World, ob.data, ob.fmt, TRUE))

\* cmd_hash_object with -w, of another kind or payload
ObjectWriteOther ==
    /\ ob.pc = "other"
    /\ HasDigests(2)
    /\ \E i \in ObjectInputs \ {<<ob.fmt, ob.data>>} :
         ObjectCalled(generic_object_hash(World, i[2], i[1], TRUE))
    /\ ob' = [ob EXCEPT !.pc = "again"]

ObjectWrittenAgain(r) ==
    /\ ObjectCalled(r)
    /\ ob' = [ob EXCEPT !.pc = "read", !.before = objects,
                        !.second = [err |-> r.err, sha |-> r.ret]]

\* cmd_hash_object with -w, of the first kind and payload again
ObjectWriteAgain ==
    /\ ob.pc \in {"other", "again"}
    /\ ObjectWrittenAgain(generic_object_hash(World, ob.data, ob.fmt, TRUE))

\* What a read gave: the kind and the payload the object serializes to.
object_read_back(r) ==
    Try(r, LAMBDA o :
    Try(serialize(o.fmt, o.obj), LAMBDA data : Ok([fmt |-> o.fmt, data |-> data])))

\* What blob_read, commit_read and tree_read of the sha raise: "" where
\* they return an object.
typed_reads(store, sha) ==
    [blob |-> blob_read(store, sha).err, commit |-> commit_read(store, sha).err,
     tree |-> tree_read(store, sha).err]

ObjectReadBack(r) ==
    ob' = [ob EXCEPT !.pc = "done", !.typed = typed_reads(objects, ob.first),
                     !.read = IF r.err # "" THEN [err |-> r.err, fmt |-> <<>>, data |-> <<>>]
                              ELSE [err |-> "", fmt |-> r.val.fmt, data |-> r.val.data]]

\* generic_object_read of the sha the first write returned, and the payload
\* the object read serializes to; blob_read, commit_read and tree_read of
\* the same sha
ObjectRead ==
    /\ ob.pc = "read"
    /\ ObjectReadBack(object_read_back(generic_object_read(objects, ob.first)))
    /\ UNCHANGED <<kv, tr, ix, sha1, digests, objects, gitdir, run, hist, rf, fs, procs>>

NextObject == ObjectWrite \/ ObjectWriteOther \/ ObjectWriteAgain \/ ObjectRead

SpecObject == InitObject /\ [][NextObject]_vars


----------------------------------------------------------------------------
(* The repository specification: the commands hash-object -w, add,        *)
(* write-tree, commit, tag and checkout, run one after the other in a      *)
(* repository that repo_create made.  commit() is run statement by         *)
(* statement, `run` holding the command at work, its step and its locals;  *)
(* `hist` holds the shas the commits returned and the number of commands   *)
(* run.                                                                    *)

MaxOps == 4

\* What cmd_hash_object is given: the bytes of the file "a", and a tree whose
\* leaf names the sha 00..0010.
HashInputs ==
    { <<FmtBlob, Worktree[<<97>>].data>>,
      <<FmtTree, <<49, 48, 48, 54, 52, 52, SP, 97, NUL>> \o bytes_fromhex(ShaEnding(<<1, 0>>))>> }

\* [pathlib.Path(path) for path in args.paths]: no path, "a", "a" and "b"
AddInputs == { <<>>, <<(<<97>>)>>, <<(<<97>>), (<<98>>)>> }

\* args.author and args.message: "A", "m"
CommitAuthors == { <<65>> }

CommitMessages == { <<109>> }

\* What the clock gives author_timestamp, in seconds.
ClockTimes == { 1, 2 }

\* -time.timezone, the zone of the machine being one hour east of UTC.
UtcOffsets == { 3600 }

\* args.name of cmd_tag: "v1"
TagNames == { <<118, 49>> }

\* args.name and args.type of cmd_rev_parse: the tags and HEAD, as commits
RevParseInputs == (TagNames \cup {HEAD}) \X {FmtCommit}

\* args.path of cmd_checkout: "out"
CheckoutPath == <<111, 117, 116>>

Init ==
    /\ objects = <<>>
    /\ gitdir = repo_create
    /\ run = RunIdle
    /\ hist = HistNone
    /\ sha1 = <<>>
    /\ digests \in ShaOrders
    /\ ob = ObIdle
    /\ rf = RfIdle
    /\ fs = FsIdle
    /\ procs = <<>>
    /\ kv = KvlmIdle
    /\ tr = TreeIdle
    /\ ix = IndexIdle

\* A command may start: none is at work, and digests are left for what it
\* hashes.
CanStart ==
    /\ run.pc = "idle"
    /\ hist.ops < MaxOps
    /\ HasDigests(3)

\* A command that ran in one step and gave the world result r.
Ran(op, r) ==
    /\ objects' = r.objects
    /\ sha1' = r.sha1
    /\ gitdir' = r.gitdir
    /\ run' = [RunIdle EXCEPT !.op = op, !.err = r.err,
                              !.sha = r.ret]
    /\ hist' = [hist EXCEPT !.ops = @ + 1]
    /\ UNCHANGED <<kv, tr, ix, ob, rf, fs, procs, digests>>

\* cmd_hash_object with -w
HashObject ==
    /\ CanStart
    /\ \E i \in HashInputs : Ran("hash-object", generic_object_hash(World, i[2], i[1], TRUE))

\* cmd_add
Add ==
    /\ CanStart
    /\ \E paths \in AddInputs : Ran("add", add_all(World, paths))

\* cmd_write_tree
WriteTree ==
    /\ CanStart
    /\ Ran("write-tree", Then(read_index(World), LAMBDA idx : tree_write(idx, idx.ret)))

\* args.object of cmd_tag: HEAD, or a tag
TagReferences == {HEAD} \cup TagNames

\* What cmd_tag gave, and what it was called with.
Tagged(r, name, reference, create_tag_object) ==
    /\ objects' = r.objects
    /\ sha1' = r.sha1
    /\ gitdir' = r.gitdir
    /\ run' = [RunIdle EXCEPT !.op = "tag", !.err = r.err, !.sha = r.ret, !.name = name,
                              !.reference = reference, !.annotated = create_tag_object]
    /\ hist' = [hist EXCEPT !.ops = @ + 1]
    /\ UNCHANGED <<kv, tr, ix, ob, rf, fs, procs, digests>>

\* cmd_tag with a name
Tag ==
    /\ CanStart
    /\ \E name \in TagNames, reference \in TagReferences, create_tag_object \in BOOLEAN :
         Tagged(tag_create(World, name, reference, create_tag_object), name, reference,
                create_tag_object)

\* What cmd_checkout gave: what it made in the destination, and the
\* exception.
CheckedOut(r, dest) ==
    /\ run' = [RunIdle EXCEPT !.op = "checkout", !.err = r.err, !.dest = dest,
                              !.out = r.val]
    /\ hist' = [hist EXCEPT !.ops = @ + 1]
    /\ UNCHANGED <<kv, tr, ix, ob, rf, fs, procs, digests, objects, sha1, gitdir>>

\* cmd_checkout of HEAD
Checkout ==
    /\ CanStart
    /\ \E dest \in CheckoutDests :
         CheckedOut(cmd_checkout(World, HEAD, CheckoutPath, dest), dest)

\* What cmd_rev_parse printed, or raised.
RevParsed(r, name) ==
    /\ run' = [RunIdle EXCEPT !.op = "rev-parse", !.err = r.err, !.name = name,
                              !.sha = r.val]
    /\ hist' = [hist EXCEPT !.ops = @ + 1]
    /\ UNCHANGED <<kv, tr, ix, ob, rf, fs, procs, digests, objects, sha1, gitdir>>

\* cmd_rev_parse with --wyag-type
RevParse ==
    /\ CanStart
    /\ \E i \in RevParseInputs : RevParsed(cmd_rev_parse(World, i[1], i[2]), i[1])

\* commit() raised e: the command is over.
CommitRaised(e) ==
    /\ run' = [RunIdle EXCEPT !.op = "commit", !.err = e]
    /\ hist' = IF run.pc = "idle" THEN [hist EXCEPT !.ops = @ + 1] ELSE hist

\* commit() has run the step locals.pc with the locals given: it goes on to
\* the next step or, after the last one, returns sha1.
CommitStepped(locals) ==
    /\ run' = IF commit_step_after(locals.pc) = "done"
              THEN [RunIdle EXCEPT !.op = "commit", !.sha = locals.sha]
              ELSE [locals EXCEPT !.pc = commit_step_after(locals.pc)]
    /\ hist' = [returned |-> IF commit_step_after(locals.pc) = "done"
                             THEN Append(hist.returned, locals.sha)
                             ELSE hist.returned,
                ops |-> IF run.pc = "idle" THEN hist.ops + 1 ELSE hist.ops]

\* index = read_index(), and the check that it is not empty
CommitIndexRead(r, author, message) ==
    /\ sha1' = r.sha1
    /\ IF r.err # "" THEN CommitRaised(r.err)
       ELSE IF index_is_empty(r.ret) THEN CommitRaised("ValueError: nothing to commit")
       ELSE CommitStepped([RunIdle EXCEPT !.op = "commit", !.pc = "index", !.index = r.ret,
                                          !.author = author, !.message = message])
    /\ UNCHANGED <<kv, tr, ix, ob, rf, fs, procs, digests, objects, gitdir>>

\* cmd_commit, up to the index commit() reads
Commit ==
    /\ CanStart
    /\ commit_steps[1] = "index"
    /\ \E author \in CommitAuthors, message \in CommitMessages :
         CommitIndexRead(read_index(World), author, message)

\* parent = the text of refs/heads/master, or None
CommitReadParent ==
    /\ run.pc = "parent"
    /\ CommitStepped([run EXCEPT !.parent = commit_parent(gitdir)])
    /\ UNCHANGED <<kv, tr, ix, ob, rf, fs, procs, digests, objects, sha1, gitdir>>

\* What a step of commit() that writes an object gave.
CommitWrote(r, locals) ==
    /\ objects' = r.objects
    /\ sha1' = r.sha1
    /\ IF r.err # "" THEN CommitRaised(r.err) ELSE CommitStepped(locals)
    /\ UNCHANGED <<kv, tr, ix, ob, rf, fs, procs, digests, gitdir>>

CommitTreeWritten(r) == CommitWrote(r, [run EXCEPT !.tree = r.ret])

\* sha_of_tree = tree_write(repo, index)
CommitWriteTree ==
    /\ run.pc = "tree"
    /\ CommitTreeWritten(tree_write(World, run.index))

CommitObjectWritten(r) == CommitWrote(r, [run EXCEPT !.sha = r.ret])

\* The lines are joined and sha1 = generic_object_hash(data, b"commit", repo)
CommitWriteObject ==
    /\ run.pc = "object"
    /\ \E timestamp \in ClockTimes, utc_offset \in UtcOffsets :
         CommitObjectWritten(generic_object_hash(World,
             commit_data(run.tree, run.parent, run.author,
                         author_timestamp(timestamp, utc_offset), run.message),
             FmtCommit, TRUE))

\* write_file(master_path, sha1 + "\n")
CommitWriteRef ==
    /\ run.pc = "ref"
    /\ gitdir' = open_wb_write(gitdir, MasterPath, run.sha \o <<NL>>)
    /\ CommitStepped(run)
    /\ UNCHANGED <<kv, tr, ix, ob, rf, fs, procs, digests, objects, sha1>>

Next ==
    \/ HashObject
    \/ Add
    \/ WriteTree
    \/ Tag
    \/ Checkout
    \/ RevParse
    \/ Commit
    \/ CommitReadParent
    \/ CommitWriteTree
    \/ CommitWriteObject
    \/ CommitWriteRef

Spec == Init /\ [][Next]_vars


----------------------------------------------------------------------------
(* The resolver specifications.  The reference files are drawn from what   *)
(* a repository may hold: HEAD naming a branch, itself or a commit, and    *)
(* the branch, the tag and the ref named master, each absent, holding a    *)
(* sha or symbolic.  The store is empty or holds a blob and a commit.      *)

\* "master", "heads/master"
MasterName == <<109, 97, 115, 116, 101, 114>>

HeadsMasterName == <<104, 101, 97, 100, 115, 47>> \o MasterName

\* The shas of the blob and of the commit of the store: ce01ce01.., 00..07
ShaOfBlob == ShaRepeating(<<12, 14, 0, 1>>)

ShaOfCommit == ShaEnding(<<7>>)

\* The store that holds the blob "x\n" and a commit.
StoreOfTwo ==
    open_wb_write(
        open_wb_write(<<>>, object_path(ShaOfBlob),
                      zlib_compress(object_result(FmtBlob, <<120, NL>>))),
        object_path(ShaOfCommit),
        zlib_compress(object_result(FmtCommit,
            commit_data(ShaDigit(3), <<>>, <<65>>, author_timestamp(1, 3600), <<109>>))))

\* The tree the commit of the store names: 00..03
ShaOfTree == ShaDigit(3)

\* The store that holds the tree of the commit too, with the blob as "a".
StoreOfThree ==
    open_wb_write(StoreOfTwo, object_path(ShaOfTree),
        zlib_compress(object_result(FmtTree,
            tree_serialize(<<[mode |-> <<49, 48, 48, 54, 52, 52>>, path |-> <<97>>,
                              sha |-> ShaOfBlob]>>).val)))

ResolveStores == { <<>>, StoreOfTwo, StoreOfThree }

\* What a reference file holds: a sha or "ref: <path>", and a newline.
RefLines ==
    { ShaOfBlob \o <<NL>>, ShaOfCommit \o <<NL>>,
      RefPrefix \o HEAD \o <<NL>>, RefPrefix \o MasterPath \o <<NL>> }

HeadLines ==
    { RefPrefix \o MasterPath \o <<NL>>, RefPrefix \o HEAD \o <<NL>>, ShaOfCommit \o <<NL>> }

\* refs/heads/master, refs/tags/master, refs/master
RefFiles == { MasterPath, RefsTags \o MasterName, Refs \o MasterName }

\* The files of .git, HEAD holding h and the reference file p holding c[p],
\* or being absent where c[p] is empty.
FilesOf(h, c) ==
    [p \in {HEAD} \cup {q \in DOMAIN c : c[q] # <<>>} |-> IF p = HEAD THEN h ELSE c[p]]

RefWorlds == { FilesOf(h, c) : h \in HeadLines, c \in [RefFiles -> RefLines \cup {<<>>}] }

\* The names resolved: "master", "heads/master", "HEAD", the first five and
\* the first three characters of the blob's sha, the sha of the blob, the sha
\* of the tree, " ".
ResolveNames ==
    { MasterName, HeadsMasterName, HEAD, <<67, 101, 48, 49, 99>>, <<99, 101, 48>>,
      ShaOfBlob, ShaOfTree, <<SP>> }

\* fmt of object_find: None, b'blob', b'commit', b'tree'
FindKinds == { <<>>, FmtBlob, FmtCommit, FmtTree }

InitResolve ==
    /\ gitdir \in RefWorlds
    /\ objects \in ResolveStores
    /\ rf \in {[RfIdle EXCEPT !.pc = "resolve", !.name = n] : n \in ResolveNames}
    /\ run = RunIdle
    /\ hist = HistNone
    /\ ob = ObIdle
    /\ fs = FsIdle
    /\ procs = <<>>
    /\ sha1 = <<>>
    /\ digests = CHOOSE o \in ShaOrders : TRUE
    /\ kv = KvlmIdle
    /\ tr = TreeIdle
    /\ ix = IndexIdle

\* object_resolve(repo, name)
ObjectResolve ==
    /\ rf.pc = "resolve"
    /\ rf' = [rf EXCEPT !.candidates = object_resolve(World, rf.name), !.pc = "find"]
    /\ UNCHANGED <<kv, tr, ix, sha1, digests, objects, gitdir, run, hist, ob, fs, procs>>

\* object_find(repo, name, fmt, follow=True)
ObjectFind ==
    /\ rf.pc = "find"
    /\ \E fmt \in FindKinds :
         rf' = [rf EXCEPT !.fmt = fmt, !.found = object_find(World, rf.name, fmt, TRUE),
                          !.pc = "done"]
    /\ UNCHANGED <<kv, tr, ix, sha1, digests, objects, gitdir, run, hist, ob, fs, procs>>

NextResolve == ObjectResolve \/ ObjectFind

SpecResolve == InitResolve /\ [][NextResolve]_vars

(* ref_resolve, call by call: rf.stack holds the refs of the calls that    *)
(* have not returned, the innermost last.                                  *)

\* The number of nested calls the interpreter allows before it raises
\* RecursionError (sys.getrecursionlimit(), 1000 by default), scaled down.
RecursionLimit == 5

InitRefResolve ==
    /\ gitdir \in RefWorlds
    /\ objects = <<>>
    /\ rf \in {[RfIdle EXCEPT !.pc = "call", !.stack = <<r>>] : r \in {HEAD} \cup RefFiles}
    /\ run = RunIdle
    /\ hist = HistNone
    /\ ob = ObIdle
    /\ fs = FsIdle
    /\ procs = <<>>
    /\ sha1 = <<>>
    /\ digests = CHOOSE o \in ShaOrders : TRUE
    /\ kv = KvlmIdle
    /\ tr = TreeIdle
    /\ ix = IndexIdle

\* The innermost call of ref_resolve.
RefOnTop == ref_resolve_call(gitdir, rf.stack[Len(rf.stack)])

\* The innermost call reads a symbolic ref and calls ref_resolve with the
\* ref it names.
RefResolveCall ==
    /\ rf.pc = "call"
    /\ RefOnTop.err = ""
    /\ RefOnTop.calls
    /\ Len(rf.stack) < RecursionLimit
    /\ rf' = [rf EXCEPT !.stack = Append(@, RefOnTop.next)]
    /\ UNCHANGED <<kv, tr, ix, sha1, digests, objects, gitdir, run, hist, ob, fs, procs>>

\* What the outermost call gives, the innermost one returning r or raising.
RefResolved(r) ==
    /\ rf' = [rf EXCEPT !.pc = "done", !.resolved = r]
    /\ UNCHANGED <<kv, tr, ix, sha1, digests, objects, gitdir, run, hist, ob, fs, procs>>

\* The innermost call returns what the file holds, every call it is nested
\* in returns the same; or it raises: the file is not there, or the call it
\* is about to make is one more than the interpreter allows.
RefResolveReturn ==
    /\ rf.pc = "call"
    /\ RefOnTop.err = "" /\ RefOnTop.calls => Len(rf.stack) >= RecursionLimit
    /\ RefResolved(IF RefOnTop.err # "" THEN Err(RefOnTop.err)
                   ELSE IF RefOnTop.calls THEN Err("RecursionError")
                   ELSE Ok(RefOnTop.val))

NextRefResolve == RefResolveCall \/ RefResolveReturn

SpecRefResolve == InitRefResolve /\ [][NextRefResolve]_vars


----------------------------------------------------------------------------
(* The init specification.  `fs` holds what is at args.path: the worktree  *)
(* (missing, a file or a directory), whether the directory holds anything  *)
(* else than .git, and the directories and files of .git, each named by    *)
(* its path below .git as a tuple of names (<<>> is .git itself).          *)
(* repo_create is run statement by statement, and GitRepository(path) may  *)
(* open the repository at any time.                                        *)

\* "core", "repositoryformatversion", "filemode", "bare", "false"
CoreSection == <<99, 111, 114, 101>>

FormatVersionKey == <<114, 101, 112, 111, 115, 105, 116, 111, 114, 121, 102, 111, 114, 109, 97, 116, 118, 101, 114, 115, 105, 111, 110>>

FileModeKey == <<102, 105, 108, 101, 109, 111, 100, 101>>

BareKey == <<98, 97, 114, 101>>

FalseValue == <<102, 97, 108, 115, 101>>

\* "Unnamed repository: edit this file 'description' to name the repository.\n"
DescriptionText == <<85, 110, 110, 97, 109, 101, 100, 32, 114, 101, 112, 111, 115, 105, 116, 111, 114, 121, 58, 32, 101, 100, 105, 116, 32, 116, 104, 105, 115, 32, 102, 105, 108, 101, 32, 39, 100, 101, 115, 99, 114, 105, 112, 116, 105, 111, 110, 39, 32, 116, 111, 32, 110, 97, 109, 101, 32, 116, 104, 101, 32, 114, 101, 112, 111, 115, 105, 116, 111, 114, 121, 46, 10>>

\* A ConfigParser: a dictionary of sections, each a dictionary of options.
\* The default configuration with another format version.
repo_default_config_of(vers) ==
    DictSet(<<>>, CoreSection,
            DictSet(DictSet(DictSet(<<>>, FormatVersionKey, vers),
                            FileModeKey, FalseValue),
                    BareKey, FalseValue))

repo_default_config_one == repo_default_config_of(<<49>>)

repo_default_config == repo_default_config_of(<<48>>)

\* ConfigParser.write: "[section]", then "key = value" for each option, then
\* a blank line.
config_write_options(options) ==
    Concat([i \in 1..Len(options) |->
              options[i][1] \o <<SP, 61, SP>> \o options[i][2] \o <<NL>>])

config_write(conf) ==
    Concat([i \in 1..Len(conf) |->
              <<91>> \o conf[i][1] \o <<93, NL>>
                 \o config_write_options(conf[i][2]) \o <<NL>>])

\* ConfigParser.read_string, for files of section headers, "key = value"
\* lines and blank lines.  `pos` is the start of the line to read, `section`
\* the section at work (<<>> before the first header).
RECURSIVE config_read_lines(_, _, _, _)
config_read_lines(data, pos, section, conf) ==
    IF pos >= Len(data) THEN Ok(conf)
    ELSE
      With(Find(data, NL, pos), LAMBDA nl :
      With(IF nl = -1 THEN Len(data) ELSE nl, LAMBDA end :
      With(Strip(Slice(data, pos, end)), LAMBDA line :
        IF line = <<>> THEN config_read_lines(data, end + 1, section, conf)
        ELSE IF line[1] = 91 /\ line[Len(line)] = 93
        THEN With(Slice(line, 1, -1), LAMBDA name :
               IF DictHas(conf, name) THEN Err("DuplicateSectionError")
               ELSE config_read_lines(data, end + 1, name, DictSet(conf, name, <<>>)))
        ELSE IF section = <<>> THEN Err("MissingSectionHeaderError")
        ELSE With(Find(line, 61, 0), LAMBDA eq :
               IF eq = -1 THEN Err("ParsingError")
               ELSE With(Lower(Strip(Slice(line, 0, eq))), LAMBDA key :
                      IF DictHas(DictGet(conf, section), key)
                      THEN Err("DuplicateOptionError")
                      ELSE config_read_lines(data, end + 1, section,
                             DictSet(conf, section,
                               DictSet(DictGet(conf, section), key,
                                       Strip(Slice(line, eq + 1, Len(line)))))))))))

config_read(data) == config_read_lines(data, 0, <<>>, <<>>)

\* conf.get(section, option)
config_get(conf, section, option) ==
    IF ~DictHas(conf, section) THEN Err("NoSectionError")
    ELSE IF ~DictHas(DictGet(conf, section), option) THEN Err("NoOptionError")
    ELSE Ok(DictGet(DictGet(conf, section), option))

\* The paths from .git down to p.
PathPrefixes(p) == {SubSeq(p, 1, k) : k \in 0..Len(p)}

\* rpath.exists(), rpath.is_dir()
path_exists(f, p) == p \in f.dirs \/ p \in DOMAIN f.files

path_is_dir(f, p) == p \in f.dirs

\* rpath.mkdir(parents=True), rpath not existing
mkdir_parents(f, p) ==
    IF \E q \in PathPrefixes(p) : q \in DOMAIN f.files THEN Err("NotADirectoryError")
    ELSE Ok([f EXCEPT !.worktree = "dir", !.dirs = @ \cup PathPrefixes(p)])

\* repo_dir(repo, *path, mkdir): whether a path is returned, and what is at
\* args.path afterwards.
repo_dir(f, p, mkdir) ==
    IF path_exists(f, p)
    THEN IF path_is_dir(f, p) THEN Ok([found |-> TRUE, fs |-> f])
         ELSE Err("ValueError: Not a directory")
    ELSE IF mkdir
    THEN Try(mkdir_parents(f, p), LAMBDA g : Ok([found |-> TRUE, fs |-> g]))
    ELSE Ok([found |-> FALSE, fs |-> f])

\* repo_file(repo, *path), mkdir unset: whether a path is returned.
repo_file(f, p) ==
    Try(repo_dir(f, SubSeq(p, 1, Len(p) - 1), FALSE), LAMBDA d : Ok(d.found))

\* self.conf.read([str(cf)]): a file that cannot be opened is skipped.
conf_read(f, p) ==
    IF p \in DOMAIN f.files THEN config_read(f.files[p]) ELSE Ok(<<>>)

\* GitRepository(path, force): the configuration read, or the error raised.
GitRepository(f, force) ==
    IF ~(force \/ path_is_dir(f, <<>>)) THEN Err("ValueError: Not a git repository")
    ELSE
      Try(repo_file(f, <<"config">>), LAMBDA cf :
      Try(IF cf /\ path_exists(f, <<"config">>) THEN conf_read(f, <<"config">>)
          ELSE IF ~force THEN Err("ValueError: Configuration file missing")
          ELSE Ok(<<>>), LAMBDA conf :
        IF force THEN Ok(conf)
        ELSE Try(config_get(conf, CoreSection, FormatVersionKey), LAMBDA v :
             Try(IntOfAscii(v), LAMBDA vers :
               IF vers # 0 THEN Err("ValueError: Unsupported repositoryformatversion")
               ELSE Ok(conf)))))

\* open(str(path), "w") and f.write(content)
open_w_write(f, p, content) ==
    IF p \in f.dirs THEN Err("IsADirectoryError")
    ELSE IF SubSeq(p, 1, Len(p) - 1) \notin f.dirs THEN Err("FileNotFoundError")
    ELSE Ok([f EXCEPT !.files = open_wb_write(f.files, p, content)])

\* The first statements of repo_create: the repository object is made, and
\* the worktree is checked or made.  ewyag's repo_create takes a directory
\* that is not empty.
repo_create_worktree(f) ==
    Try(GitRepository(f, TRUE), LAMBDA conf :
      IF f.worktree # "missing"
      THEN IF f.worktree # "dir" THEN Err("ValueError: not a directory")
           ELSE IF (f.other \/ path_exists(f, <<>>)) /\ f.module = "wyag"
           THEN Err("ValueError: not empty")
           ELSE Ok(f)
      ELSE Ok([f EXCEPT !.worktree = "dir"]))

\* The statements that follow, in their order: the directories made and the
\* files written.
repo_create_dirs ==
    <<(<<"branches">>), (<<"objects">>), (<<"refs", "tags">>), (<<"refs", "heads">>)>>

repo_create_files ==
    <<(<<(<<"description">>), DescriptionText>>),
      (<<(<<"HEAD">>), RefPrefix \o MasterPath \o <<NL>>>>),
      (<<(<<"config">>), config_write(repo_default_config)>>)>>

\* assert(repo_dir(repo, *path, mkdir=True))
repo_create_dir(f, p) ==
    Try(repo_dir(f, p, TRUE), LAMBDA d :
      IF d.found THEN Ok(d.fs) ELSE Err("AssertionError"))

\* x_f = repo_file(repo, name); if x_f: write
repo_create_file(f, p, content) ==
    Try(repo_file(f, p), LAMBDA found :
      IF found THEN open_w_write(f, p, content) ELSE Ok(f))

\* What is at args.path before init: nothing, a file, or a directory that
\* holds another file or not, and a .git that is absent, a file or a
\* directory with a config, a HEAD and a description or without.
ConfigFiles ==
    { config_write(repo_default_config),
      config_write(repo_default_config_one),
      config_write(DictSet(<<>>, CoreSection, DictSet(<<>>, BareKey, FalseValue))),
      FormatVersionKey }

GitDirsBefore ==
    { [dirs |-> {<<>>} \cup d, files |-> c @@ h] :
        d \in {{}, {<<"description">>}, {<<"objects">>}},
        c \in {<<>>} \cup {(<<"config">> :> x) : x \in ConfigFiles},
        h \in {<<>>, (<<"HEAD">> :> (ShaEnding(<<7>>) \o <<NL>>))} }

FsBefore ==
    { [FsIdle EXCEPT !.worktree = "missing", !.before = "missing"],
      [FsIdle EXCEPT !.worktree = "file", !.before = "file"],
      [FsIdle EXCEPT !.worktree = "dir", !.before = "empty"],
      [FsIdle EXCEPT !.worktree = "dir", !.before = "nonempty", !.other = TRUE],
      [FsIdle EXCEPT !.worktree = "dir", !.before = "nonempty",
                     !.files = (<<>> :> <<NL>>)] }
    \cup { [FsIdle EXCEPT !.worktree = "dir", !.before = "nonempty", !.other = o,
                          !.dirs = g.dirs, !.files = g.files] :
             o \in BOOLEAN, g \in GitDirsBefore }

InitInit ==
    /\ fs \in { [f EXCEPT !.module = m] : f \in FsBefore, m \in {"wyag", "ewyag"} }
    /\ procs = <<>>
    /\ objects = <<>>
    /\ gitdir = <<>>
    /\ run = RunIdle
    /\ hist = HistNone
    /\ ob = ObIdle
    /\ rf = RfIdle
    /\ sha1 = <<>>
    /\ digests = CHOOSE o \in ShaOrders : TRUE
    /\ kv = KvlmIdle
    /\ tr = TreeIdle
    /\ ix = IndexIdle

\* A statement of repo_create has run: on to the next one, or the error.
RepoCreated(r, next) ==
    /\ fs' = IF r.err # "" THEN [fs EXCEPT !.pc = "raised", !.err = r.err]
             ELSE [r.val EXCEPT !.pc = next]
    /\ UNCHANGED <<kv, tr, ix, sha1, digests, objects, gitdir, run, hist, ob, rf, procs>>

RepoCreate ==
    /\ fs.pc = "idle"
    /\ RepoCreated(repo_create_worktree(fs), "dir1")

RepoCreateDir ==
    \E i \in 1..Len(repo_create_dirs) :
        /\ fs.pc = "dir" \o ToString(i)
        /\ RepoCreated(repo_create_dir(fs, repo_create_dirs[i]),
                       IF i < Len(repo_create_dirs) THEN "dir" \o ToString(i + 1)
                       ELSE "file1")

RepoCreateFile ==
    \E i \in 1..Len(repo_create_files) :
        /\ fs.pc = "file" \o ToString(i)
        /\ RepoCreated(repo_create_file(fs, repo_create_files[i][1], repo_create_files[i][2]),
                       IF i < Len(repo_create_files) THEN "file" \o ToString(i + 1)
                       ELSE "done")

\* GitRepository(path), force unset, by a command run on the repository.
RepoOpened(r) ==
    /\ fs' = [fs EXCEPT !.opened = [err |-> r.err,
                                    vers |-> IF r.err # "" THEN <<>>
                                             ELSE config_get(r.val, CoreSection, FormatVersionKey).val]]
    /\ UNCHANGED <<kv, tr, ix, sha1, digests, objects, gitdir, run, hist, ob, rf, procs>>

RepoOpen == RepoOpened(GitRepository(fs, FALSE))

NextInit == RepoCreate \/ RepoCreateDir \/ RepoCreateFile \/ RepoOpen

SpecInit == InitInit /\ [][NextInit]_vars


----------------------------------------------------------------------------
(* The race specification: two processes run commit() on one repository    *)
(* whose index holds entries.  A process takes a step of its own at each   *)
(* system call that reads or changes .git: the index is read, the ref is   *)
(* read, and an object file or the ref is written by the calls of          *)
(* repo_dir (exists, mkdir), of open and of write.  `procs` holds the      *)
(* locals of each process, `fs.dirs` the directories below .git/objects,   *)
(* and `hist.returned` the shas written to the ref, in the order of the    *)
(* writes.                                                                 *)

RaceProcs == {1, 2}

\* args.author of the two invocations: "A", "B"
RaceAuthors == { <<65>>, <<66>> }

\* What was added before the two commits: "a", or "a" and "b".
RacePaths == { <<(<<97>>)>>, <<(<<97>>), (<<98>>)>> }

\* A process about to run commit().  `sub` is the call at work inside the
\* statement pc, `path` and `content` the object file being written.
ProcIdle == [pc |-> "index", sub |-> "", err |-> "", author |-> <<>>, message |-> <<>>,
             index |-> <<>>, parent |-> <<>>, tree |-> <<>>, sha |-> <<>>,
             path |-> <<>>, content |-> <<>>]

\* The directory of an object file: objects/<sha[0:2]>
object_dir(path) == <<"objects", path[1]>>

\* f.write(content) on a file opened at its start: the bytes replace what
\* the file holds there.
file_write(store, path, content) ==
    [store EXCEPT ![path] = content \o SubSeq(@, Len(content) + 1, Len(@))]

InitRace ==
    /\ digests \in ShaOrders
    /\ objects = <<>>
    /\ sha1 = <<>>
    /\ gitdir = repo_create
    /\ fs = [FsIdle EXCEPT !.worktree = "dir", !.before = "nonempty"]
    /\ \E author \in RaceAuthors :
         procs = [p \in RaceProcs |->
                    [ProcIdle EXCEPT !.author = IF p = 1 THEN <<65>> ELSE author,
                                     !.message = <<109>>]]
    /\ hist = HistNone
    /\ run = RunIdle
    /\ ob = ObIdle
    /\ rf = RfIdle
    /\ kv = KvlmIdle
    /\ tr = TreeIdle
    /\ ix = IndexIdle

\* cmd_add has run, as a single process, and given the world result r.
RaceAdded(r) ==
    /\ objects' = r.objects
    /\ sha1' = r.sha1
    /\ gitdir' = r.gitdir
    /\ fs' = [fs EXCEPT !.dirs = {object_dir(path) : path \in DOMAIN r.objects}]
    /\ hist' = [hist EXCEPT !.ops = 1]
    /\ UNCHANGED <<kv, tr, ix, ob, rf, run, procs, digests>>

\* The add that comes before the two commits.
RaceAdd ==
    /\ hist.ops = 0
    /\ \E paths \in RacePaths : RaceAdded(add_all(World, paths))

\* Process p goes on with the locals given.
ProcStepped(p, locals) == procs' = [procs EXCEPT ![p] = locals]

\* Process p ends with the exception e.
ProcRaised(p, e) == ProcStepped(p, [procs[p] EXCEPT !.pc = "raised", !.sub = "", !.err = e])

\* index = read_index(), and the check that it is not empty
RaceIndexRead(p, r) ==
    /\ sha1' = r.sha1
    /\ IF r.err # "" THEN ProcRaised(p, r.err)
       ELSE IF index_is_empty(r.ret) THEN ProcRaised(p, "ValueError: nothing to commit")
       ELSE ProcStepped(p, [procs[p] EXCEPT !.pc = commit_step_after("index"), !.index = r.ret])
    /\ UNCHANGED <<kv, tr, ix, ob, rf, run, hist, fs, digests, objects, gitdir>>

RaceReadIndex ==
    \E p \in RaceProcs :
        /\ hist.ops = 1
        /\ procs[p].pc = "index"
        /\ RaceIndexRead(p, read_index(World))

\* parent = the text of refs/heads/master, or None
RaceReadParent ==
    \E p \in RaceProcs :
        /\ procs[p].pc = "parent"
        /\ ProcStepped(p, [procs[p] EXCEPT !.pc = commit_step_after("parent"),
                                          !.parent = commit_parent(gitdir)])
        /\ UNCHANGED <<kv, tr, ix, ob, rf, run, hist, fs, digests, objects, sha1, gitdir>>

\* object_write up to rpath.exists() in repo_dir: r is what the whole call
\* gives in a world of its own, from which the sha, the path and the bytes of
\* the file are taken.
RaceObjectHashed(p, r, locals) ==
    /\ sha1' = r.sha1
    /\ IF r.err # "" THEN ProcRaised(p, r.err)
       ELSE ProcStepped(p, [locals EXCEPT
              !.path = object_path(r.ret),
              !.content = r.objects[object_path(r.ret)],
              !.sub = IF object_dir(object_path(r.ret)) \in fs.dirs THEN "open" ELSE "mkdir"])
    /\ UNCHANGED <<kv, tr, ix, ob, rf, run, hist, fs, digests, objects, gitdir>>

RaceTreeHashed(p, r) == RaceObjectHashed(p, r, [procs[p] EXCEPT !.tree = r.ret])

\* sha_of_tree = tree_write(repo, index), up to rpath.exists()
RaceHashTree ==
    \E p \in RaceProcs :
        /\ procs[p].pc = "tree"
        /\ procs[p].sub = ""
        /\ RaceTreeHashed(p, tree_write(World, procs[p].index))

RaceCommitHashed(p, r) == RaceObjectHashed(p, r, [procs[p] EXCEPT !.sha = r.ret])

\* sha1 = generic_object_hash(data, b"commit", repo), up to rpath.exists()
RaceHashCommit ==
    \E p \in RaceProcs :
        /\ procs[p].pc = "object"
        /\ procs[p].sub = ""
        /\ \E timestamp \in ClockTimes, utc_offset \in UtcOffsets :
             RaceCommitHashed(p, generic_object_hash(World,
                 commit_data(procs[p].tree, procs[p].parent, procs[p].author,
                             author_timestamp(timestamp, utc_offset), procs[p].message),
                 FmtCommit, TRUE))

\* rpath.mkdir(parents=True) in repo_dir: FileExistsError when the directory
\* was made since rpath.exists().
RaceMkdir ==
    \E p \in RaceProcs :
        /\ procs[p].pc \in {"tree", "object"}
        /\ procs[p].sub = "mkdir"
        /\ IF object_dir(procs[p].path) \in fs.dirs
           THEN ProcRaised(p, "FileExistsError") /\ fs' = fs
           ELSE /\ ProcStepped(p, [procs[p] EXCEPT !.sub = "open"])
                /\ fs' = [fs EXCEPT !.dirs = @ \cup {object_dir(procs[p].path)}]
        /\ UNCHANGED <<kv, tr, ix, ob, rf, run, hist, digests, objects, sha1, gitdir>>

\* open(str(path), "wb") in object_write: the file is made, or emptied.
RaceOpen ==
    \E p \in RaceProcs :
        /\ procs[p].pc \in {"tree", "object"}
        /\ procs[p].sub = "open"
        /\ objects' = open_wb_write(objects, procs[p].path, <<>>)
        /\ ProcStepped(p, [procs[p] EXCEPT !.sub = "write"])
        /\ UNCHANGED <<kv, tr, ix, ob, rf, run, hist, fs, digests, sha1, gitdir>>

\* f.write(zlib.compress(result)) in object_write, and the statement is done.
RaceWrite ==
    \E p \in RaceProcs :
        /\ procs[p].pc \in {"tree", "object"}
        /\ procs[p].sub = "write"
        /\ objects' = file_write(objects, procs[p].path, procs[p].content)
        /\ ProcStepped(p, [procs[p] EXCEPT !.sub = "", !.pc = commit_step_after(@)])
        /\ UNCHANGED <<kv, tr, ix, ob, rf, run, hist, fs, digests, sha1, gitdir>>

\* open(path, 'wb') in write_file: the ref is made, or emptied.
RaceRefOpen ==
    \E p \in RaceProcs :
        /\ procs[p].pc = "ref"
        /\ procs[p].sub = ""
        /\ gitdir' = open_wb_write(gitdir, MasterPath, <<>>)
        /\ ProcStepped(p, [procs[p] EXCEPT !.sub = "write"])
        /\ UNCHANGED <<kv, tr, ix, ob, rf, run, hist, fs, digests, objects, sha1>>

\* f.write(data) in write_file, and commit() returns sha1.
RaceRefWrite ==
    \E p \in RaceProcs :
        /\ procs[p].pc = "ref"
        /\ procs[p].sub = "write"
        /\ gitdir' = file_write(gitdir, MasterPath, procs[p].sha \o <<NL>>)
        /\ hist' = [hist EXCEPT !.returned = Append(@, procs[p].sha)]
        /\ ProcStepped(p, [procs[p] EXCEPT !.sub = "", !.pc = commit_step_after(@)])
        /\ UNCHANGED <<kv, tr, ix, ob, rf, run, fs, digests, objects, sha1>>

NextRace ==
    \/ RaceAdd
    \/ RaceReadIndex
    \/ RaceReadParent
    \/ RaceHashTree
    \/ RaceHashCommit
    \/ RaceMkdir
    \/ RaceOpen
    \/ RaceWrite
    \/ RaceRefOpen
    \/ RaceRefWrite

SpecRace == InitRace /\ [][NextRace]_vars


----------------------------------------------------------------------------
(* The staging specification: the commands add and write-tree, run one     *)
(* after the other in a repository that repo_create made, on paths that    *)
(* are files of modes 0644, 0755 and 0664, a file below a directory, and   *)
(* a path that does not exist.                                             *)

MaxStageOps == 3

\* "c", "d/f", "z"
PathC == <<99>>

PathDF == <<100, 47, 102>>

PathZ == <<122>>

\* args.paths of cmd_add
StageInputs ==
    { <<(<<97>>)>>, <<PathC>>, <<PathDF>>, <<PathZ>>, <<(<<98>>), PathC>>,
      <<(<<97>>), PathZ>> }

StageCanStart ==
    /\ run.pc = "idle"
    /\ hist.ops < MaxStageOps
    /\ HasDigests(3)

\* A command given paths has run and given the world result r.
StageRan(op, r, paths) ==
    /\ objects' = r.objects
    /\ sha1' = r.sha1
    /\ gitdir' = r.gitdir
    /\ run' = [RunIdle EXCEPT !.op = op, !.err = r.err, !.sha = r.ret, !.name = paths]
    /\ hist' = [hist EXCEPT !.ops = @ + 1]
    /\ UNCHANGED <<kv, tr, ix, ob, rf, fs, procs, digests>>

\* cmd_add
StageAdd ==
    /\ StageCanStart
    /\ \E paths \in StageInputs : StageRan("add", add_all(World, paths), paths)

\* cmd_write_tree
StageWriteTree ==
    /\ StageCanStart
    /\ StageRan("write-tree",
                Then(read_index(World), LAMBDA idx : tree_write(idx, idx.ret)), <<>>)

NextStage == StageAdd \/ StageWriteTree

SpecStage == Init /\ [][NextStage]_vars


----------------------------------------------------------------------------
(* The index file specification: write_index writes .git/index, the file   *)
(* is left alone, removed or changed by something else than write_index,   *)
(* with the checksum of the changed bytes or with the old one, and         *)
(* read_index reads it.                                                    *)

MaxFileEntries == 1

IndexFileInputs == UNION {[1..n -> IndexEntries] : n \in 0..MaxFileEntries}

\* What happens to the file between write_index and read_index.
TamperKinds == {"checksum", "signature", "version", "count", "cut", "remove"}

\* The bytes before the checksum, changed.
tampered_data(data, kind) ==
    IF kind = "signature" THEN <<88>> \o Slice(data, 1, Len(data))
    ELSE IF kind = "version" THEN Slice(data, 0, 4) \o U32(3) \o Slice(data, 8, Len(data))
    ELSE IF kind = "count"
    THEN Slice(data, 0, 8) \o U32(FromU32(Slice(data, 8, 12)) + 1) \o Slice(data, 12, Len(data))
    ELSE IF kind = "cut" THEN Slice(data, 0, 8)
    ELSE data

\* The file with the bytes before the checksum changed, followed by the 20
\* bytes given; the kind "checksum" changes the last of these.
tampered_file(file, kind, checksum) ==
    tampered_data(index_hashed(file), kind)
      \o (IF kind = "checksum"
          THEN Slice(checksum, 0, -1) \o <<(checksum[Len(checksum)] + 1) % 256>>
          ELSE checksum)

InitIndexFile ==
    /\ ix \in {[IndexIdle EXCEPT !.pc = "write", !.entries = l] : l \in IndexFileInputs}
    /\ gitdir = repo_create
    /\ objects = <<>>
    /\ sha1 = <<>>
    /\ digests \in ShaOrders
    /\ run = RunIdle
    /\ hist = HistNone
    /\ ob = ObIdle
    /\ rf = RfIdle
    /\ fs = FsIdle
    /\ procs = <<>>
    /\ kv = KvlmIdle
    /\ tr = TreeIdle

\* A step of the specification has given the world result r.
IndexFileStepped(r, next) ==
    /\ gitdir' = r.gitdir
    /\ sha1' = r.sha1
    /\ ix' = next
    /\ UNCHANGED <<kv, tr, digests, objects, run, hist, ob, rf, fs, procs>>

\* write_index(entries)
IndexFileWrite ==
    /\ ix.pc = "write"
    /\ IndexFileStepped(write_index(World, ix.entries), [ix EXCEPT !.pc = "read"])

\* The file is removed, or changed and given the 20 bytes sum.
IndexFileTampered(kind, sum) ==
    /\ gitdir' = IF kind = "remove"
                 THEN [p \in DOMAIN gitdir \ {IndexPath} |-> gitdir[p]]
                 ELSE open_wb_write(gitdir, IndexPath,
                                    tampered_file(gitdir[IndexPath], kind, sum))
    /\ ix' = [ix EXCEPT !.tamper = kind]
    /\ UNCHANGED <<kv, tr, digests, objects, run, hist, ob, rf, fs, procs>>

\* The file changed, with the checksum it had.
IndexFileTamper ==
    /\ ix.pc = "read"
    /\ ix.tamper = "none"
    /\ \E kind \in TamperKinds :
         /\ IndexFileTampered(kind, Slice(gitdir[IndexPath], 0 - CHECKSUM_LENGTH,
                                          Len(gitdir[IndexPath])))
         /\ sha1' = sha1

\* The file changed, with the checksum of the changed bytes.
IndexFileRewrite ==
    /\ ix.pc = "read"
    /\ ix.tamper = "none"
    /\ HasDigests(1)
    /\ \E kind \in TamperKinds \ {"checksum", "remove"} :
         \E d \in Sha1Choices(sha1, tampered_data(index_hashed(gitdir[IndexPath]), kind)) :
            /\ IndexFileTampered(kind, bytes_fromhex(d))
            /\ sha1' = Sha1Record(sha1, tampered_data(index_hashed(gitdir[IndexPath]), kind), d)

\* read_index()
IndexFileRead ==
    /\ ix.pc = "read"
    /\ HasDigests(1)
    /\ With(read_index(World), LAMBDA r :
         IndexFileStepped(r, [ix EXCEPT !.pc = "done",
                                        !.read = [err |-> r.err, val |-> r.ret]]))

NextIndexFile == IndexFileWrite \/ IndexFileTamper \/ IndexFileRewrite \/ IndexFileRead

SpecIndexFile == InitIndexFile /\ [][NextIndexFile]_vars


----------------------------------------------------------------------------
(* Properties of the codecs.                                               *)

SortedByName(entries) ==
    \A i \in 1..(Len(entries) - 1) : ~BytesLess(entries[i + 1].name, entries[i].name)

\* s and t hold the same entries, each as often.
SameEntries(s, t) ==
    /\ Len(s) = Len(t)
    /\ \E p \in [1..Len(s) -> 1..Len(s)] :
         /\ \A i, j \in 1..Len(s) : p[i] = p[j] => i = j
         /\ \A i \in 1..Len(s) : s[i] = t[p[i]]

\* The last 20 bytes of the written index file are the SHA-1 of the bytes
\* before them.
IndexChecksumHolds ==
    /\ index_hashed(ix.file) \in DOMAIN sha1
    /\ Slice(ix.file, 0 - CHECKSUM_LENGTH, Len(ix.file))
         = bytes_fromhex(sha1[index_hashed(ix.file)])

\* C4: KVLM round-trip.  For a mapping kvlm that kvlm_parse produced,
\* kvlm_parse(kvlm_serialize(kvlm)) equals kvlm, keys in the same order and
\* the values of a repeated key in their original order.
C4_KvlmRoundTrip == kv.pc = "done" => kv.reparsed = kv.parsed

\* C5: KVLM serialization inverts parsing.  For every payload raw that
\* kvlm_parse accepts, kvlm_serialize(kvlm_parse(raw)) equals raw byte for
\* byte.
C5_KvlmSerializeInverse ==
    kv.pc \in {"reparse", "done"} => kv.out = Ok(kv.raw)

\* C6: tree round-trip.  For a list of leaves with 5- or 6-byte modes and
\* 40-character lowercase hex shas, tree_parse(tree_serialize(leaves)) gives
\* the same leaves in the same order, each sha the same 40 characters.
C6_TreeRoundTrip == tr.pc = "done" => tr.parsed = Ok(tr.leaves)

----------------------------------------------------------------------------
(* Properties of the object store and of the repository.                   *)

\* C1: object round-trip.  For every kind in {blob, tree, commit, tag} and
\* every payload, generic_object_hash with a repository followed by
\* generic_object_read of the sha returned gives an object of the same kind
\* whose serialized payload is the original payload, byte for byte.
C1_ObjectRoundTrip ==
    ob.pc = "done" => ob.read = [err |-> "", fmt |-> ob.fmt, data |-> ob.data]

\* The object files of the sha.
ObjectFiles(sha) == {p \in DOMAIN objects : p[1] \o p[2] = sha}

\* C2: hash determinism.  Writing the same kind and payload a second time
\* returns the sha of the first write, and after the second write the store
\* is as before it: one object file of that sha, holding what it held after
\* the first write.
C2_HashDeterminism ==
    ob.pc \in {"read", "done"} =>
        /\ ob.second = [err |-> "", sha |-> ob.first]
        /\ objects = ob.before
        /\ ObjectFiles(ob.first) = {object_path(ob.first)}
        /\ objects[object_path(ob.first)] = ob.file

\* C2's case: a payload written, another one written, the first one written
\* again.
C2_Witness ==
    /\ ob.pc = "read"
    /\ ob.second.err = ""
    /\ Cardinality(DOMAIN objects) = 2

\* C3: objects are immutable.  No step of hash-object -w, add, write-tree,
\* commit, tag or checkout deletes an object file or changes what it holds.
C3_ObjectsImmutable ==
    [][\A p \in DOMAIN objects : p \in DOMAIN objects' /\ objects'[p] = objects[p]]_vars

\* C3's case: after a commit has returned, add has staged the same file once
\* more, writing its blob a second time next to the tree and the commit.
C3_Witness ==
    /\ run.op = "add"
    /\ run.err = ""
    /\ Len(hist.returned) = 1
    /\ Cardinality(DOMAIN objects) = 3

\* The entries of the index file, as read_index gives them.
StagedEntries == read_index(World).ret

\* C8: staging a path replaces its old entry.  After any sequence of add
\* calls the index holds no two entries with the same name.
C8_OneEntryPerName ==
    run.pc = "idle" =>
        \A i, j \in 1..Len(StagedEntries) :
            StagedEntries[i].name = StagedEntries[j].name => i = j

\* The parent lines of the commit object sha: none where the object cannot
\* be read as a commit.
ParentsOf(sha) ==
    With(commit_read(objects, sha), LAMBDA commit :
        IF commit.err # "" THEN <<(<<>>)>>
        ELSE IF ~DictHas(commit.val, <<112, 97, 114, 101, 110, 116>>) THEN <<>>
        ELSE DictGet(commit.val, <<112, 97, 114, 101, 110, 116>>))

\* C9: commit chain.  Of the commits that returned, the first one has no
\* parent line and every later one has exactly one, naming the sha the commit
\* before it returned; refs/heads/master and HEAD resolve to the sha the last
\* commit returned.  The author is a single line.
C9_CommitChain ==
    /\ \A i \in 1..Len(hist.returned) :
         ParentsOf(hist.returned[i])
           = IF i = 1 THEN <<>> ELSE <<hist.returned[i - 1]>>
    /\ hist.returned # <<>> =>
         /\ ref_resolve(gitdir, MasterPath) = Ok(hist.returned[Len(hist.returned)])
         /\ ref_resolve(gitdir, HEAD) = Ok(hist.returned[Len(hist.returned)])

\* C9's case: two commits have returned.
C9_Witness == run.pc = "idle" /\ Len(hist.returned) = 2

\* refs/heads/master is written in the step.
MasterWritten ==
    /\ MasterPath \in DOMAIN gitdir'
    /\ MasterPath \in DOMAIN gitdir => gitdir'[MasterPath] # gitdir[MasterPath]

\* C10: commit step ordering.  Within a commit call the commit object is
\* written when the tree object is in the store, and refs/heads/master is
\* written only by the last step of the call, when the tree object and the
\* commit object are both in the store.
C10_CommitStepOrdering ==
    [][/\ run.pc = "object" =>
            object_get_type(objects, run.tree) = Ok(FmtTree)
       /\ MasterWritten =>
            /\ run.pc = "ref"
            /\ object_get_type(objects, run.tree) = Ok(FmtTree)
            /\ object_get_type(objects, run.sha) = Ok(FmtCommit)
            /\ gitdir'[MasterPath] = run.sha \o <<NL>>]_vars

\* C10's case: a commit call has run all its steps and returned.
C10_Witness ==
    /\ run.op = "commit"
    /\ run.pc = "idle"
    /\ run.err = ""
    /\ Len(hist.returned) >= 1
    /\ MasterPath \in DOMAIN gitdir

\* The kind of the object that the tree line of the commit object sha names.
TreeKindOf(sha) ==
    Try(commit_read(objects, sha), LAMBDA commit :
    Try(kvlm_first(commit, FmtTree), LAMBDA tree : object_get_type(objects, tree)))

\* The shas of the commit objects in the store.
StoredCommits ==
    {p[1] \o p[2] : p \in {q \in DOMAIN objects :
                              object_get_type(objects, q[1] \o q[2]) = Ok(FmtCommit)}}

C12_EmptyIndexCommitFails ==
    [][(/\ run.pc = "idle"
        /\ run'.op = "commit"
        /\ hist'.ops = hist.ops + 1
        /\ read_index(World).err = ""
        /\ StagedEntries = <<>>)
       => /\ run'.pc = "idle"
          /\ run'.err = "ValueError: nothing to commit"
          /\ objects' = objects
          /\ gitdir' = gitdir]_vars

\* C12's case: commit has failed on an index file that holds zero entries.
C12_Witness ==
    /\ run.op = "commit"
    /\ run.pc = "idle"
    /\ run.err = "ValueError: nothing to commit"
    /\ IndexPath \in DOMAIN gitdir
    /\ objects = <<>>

----------------------------------------------------------------------------
(* Properties of the typed readers, of rev-parse and of checkout.          *)

\* The sha the reference file path holds: 40 hex characters and a newline.
\* No such file, or one that holds something else, gives <<>>.
DirectSha(path) ==
    IF /\ path \in DOMAIN gitdir
       /\ Len(gitdir[path]) = ShaHexLen + 1
       /\ IsHash(Slice(gitdir[path], 0, ShaHexLen))
       /\ gitdir[path][ShaHexLen + 1] = NL
    THEN Slice(gitdir[path], 0, ShaHexLen)
    ELSE <<>>

\* C17: typed readers reject wrong kinds.  Of an object written with kind
\* fmt, blob_read, commit_read and tree_read return an object only where fmt
\* is blob, commit and tree, and raise GitObjectTypeError for every other
\* fmt; tree_read returns an object for every tree.
C17_TypedReaders ==
    ob.pc = "done" =>
        /\ ob.typed.blob = "" => ob.fmt = FmtBlob
        /\ ob.fmt # FmtBlob => ob.typed.blob = "GitObjectTypeError"
        /\ ob.typed.commit = "" => ob.fmt = FmtCommit
        /\ ob.fmt # FmtCommit => ob.typed.commit = "GitObjectTypeError"
        /\ ob.typed.tree = "" => ob.fmt = FmtTree
        /\ ob.fmt # FmtTree => ob.typed.tree = "GitObjectTypeError"
        /\ ob.fmt = FmtTree => ob.typed.tree = ""

\* The object sha as generic_object_read gives it, its kind being fmt.
ReadAs(sha, fmt) ==
    Try(generic_object_read(objects, sha), LAMBDA o :
        IF o.fmt = fmt THEN Ok(o.obj) ELSE Err("another kind"))

\* The sha of the commit that the tag object of the tag `name` names in its
\* object line; <<>> where refs/tags/<name> holds no sha of a tag object, or
\* the object named is no commit.
AnnotatedTagCommit(name) ==
    With(Try(ReadAs(DirectSha(RefsTags \o name), FmtTag), LAMBDA tag :
             kvlm_first(tag, <<111, 98, 106, 101, 99, 116>>)),
         LAMBDA object :
         IF object.err = "" /\ object_get_type(objects, object.val) = Ok(FmtCommit)
         THEN object.val
         ELSE <<>>)

\* C15: type-follow through tags.  For a tag whose ref holds the sha of a
\* tag object that names a commit, object_find of the tag's name with
\* fmt=b'commit' and follow=True, as rev-parse calls it, returns the sha of
\* that commit.
C15_TagFollow ==
    (run.op = "rev-parse" /\ run.name \in TagNames /\ AnnotatedTagCommit(run.name) # <<>>)
    => /\ run.err = ""
       /\ run.sha = AnnotatedTagCommit(run.name)

\* The leaves of the tree of the commit that HEAD resolves to.
HeadTreeLeaves ==
    Try(ref_resolve(gitdir, HEAD), LAMBDA sha :
    Try(ReadAs(sha, FmtCommit), LAMBDA commit :
    Try(kvlm_first(commit, FmtTree), LAMBDA tree : ReadAs(tree, FmtTree))))

\* What the leaves are to become below path: a file with the blob's bytes
\* for a blob, a directory filled the same way for a tree; a leaf that names
\* neither is marked "missing".
RECURSIVE Materialized(_, _, _)
Materialized(leaves, path, fuel) ==
    UNION { With(path \o <<47>> \o leaves[i].path, LAMBDA dest :
            With(generic_object_read(objects, leaves[i].sha), LAMBDA o :
                IF o.err = "" /\ o.val.fmt = FmtBlob THEN {<<dest, "file", o.val.obj>>}
                ELSE IF o.err = "" /\ o.val.fmt = FmtTree /\ fuel > 0
                THEN {<<dest, "dir">>} \cup Materialized(o.val.obj, dest, fuel - 1)
                ELSE {<<dest, "missing">>})) : i \in 1..Len(leaves) }

\* What a checkout of HEAD is to make below CheckoutPath.
HeadMaterialized ==
    Materialized(HeadTreeLeaves.val, CheckoutPath, Cardinality(DOMAIN objects))

\* C18: checkout materializes the tree.  A checkout of a commit whose tree
\* holds blob leaves and subtree leaves, into an empty directory, raises
\* nothing and makes a file with the blob's bytes for each blob leaf and a
\* directory, filled the same way, for each subtree leaf.
C18_CheckoutMaterializes ==
    (/\ run.op = "checkout"
     /\ run.dest = "empty"
     /\ HeadTreeLeaves.err = ""
     /\ \A e \in HeadMaterialized : e[2] # "missing")
    => /\ run.err = ""
       /\ run.out = HeadMaterialized

\* C19: checkout destination check.  A checkout of a commit raises "Not a
\* directory" for a destination that is a file and "Not empty" for a
\* directory that holds something, having made nothing in it; a destination
\* that is not there is made; and nothing is made in a destination that was
\* neither absent nor an empty directory.
C19_CheckoutDestination ==
    (run.op = "checkout" /\ HeadTreeLeaves.err = "") =>
        /\ run.dest = "file" => run.err = "ValueError: Not a directory" /\ run.out = {}
        /\ run.dest = "nonempty" => run.err = "ValueError: Not empty" /\ run.out = {}
        /\ run.dest = "absent" => <<CheckoutPath, "dir">> \in run.out
        /\ run.out # {} => run.dest \in {"absent", "empty"}

----------------------------------------------------------------------------
(* Properties of the resolvers.                                            *)

\* The reference files that have the name resolved.
NamedRefs == { RefsHeads \o rf.name, RefsTags \o rf.name, Refs \o rf.name }

ObjectsStarting(name) ==
    {p[1] \o p[2] : p \in {q \in DOMAIN objects : StartsWith(q[1] \o q[2], Lower(name))}}

\* No reference file has the name.
NoRefNamed(name) ==
    \A Q \in NamedRefs \cup {name, RefsHeads \o Lower(name), RefsTags \o Lower(name),
                              Refs \o Lower(name), Lower(name)} : Q \notin DOMAIN gitdir

\* C14: short-hash resolution.  A name of 4 to 39 hex characters that names
\* no ref and starts the sha of exactly one stored object resolves to that
\* sha, all 40 characters of it; a hex name of fewer than 4 characters that
\* names no ref resolves to nothing, and object_find raises "No such
\* reference".
C14_ShortHash ==
    (rf.pc = "done" /\ IsHash(rf.name) /\ rf.name # <<>> /\ NoRefNamed(rf.name)) =>
        /\ (Len(rf.name) \in 4..(ShaHexLen - 1) /\ Cardinality(ObjectsStarting(rf.name)) = 1)
           => rf.candidates = Ok(<<CHOOSE sha \in ObjectsStarting(rf.name) : TRUE>>)
        /\ Len(rf.name) < 4
           => /\ rf.candidates = Ok(<<>>)
              /\ rf.found = Err("ValueError: No such reference")

\* C16: the candidates object_find counts.  When object_resolve gives no
\* candidate, object_find raises "No such reference"; when it gives more
\* than one, object_find raises "Ambiguous reference" with all of them; what
\* object_find returns is the only candidate or, a kind being asked for, a
\* sha or None reached from the only candidate.
C16_FindCandidateCount ==
    (rf.pc = "done" /\ rf.candidates.err = "") =>
        /\ Len(rf.candidates.val) = 0 => rf.found = Err("ValueError: No such reference")
        /\ Len(rf.candidates.val) > 1
           => rf.found = [err |-> "ValueError: Ambiguous reference",
                          val |-> rf.candidates.val]
        /\ rf.found.err = ""
           => /\ Len(rf.candidates.val) = 1
              /\ rf.fmt = <<>> => rf.found.val = rf.candidates.val[1]

\* C16's case: a branch and a tag are both named master, and "master" has
\* been looked for.
C16_Witness ==
    /\ rf.pc = "done"
    /\ rf.name = MasterName
    /\ rf.candidates = Ok(<<ShaOfBlob, ShaOfCommit>>)
    /\ rf.found.err = "ValueError: Ambiguous reference"

\* C20: symbolic ref resolution terminates.  ref_resolve does not recurse
\* without bound: no call of it is nested in a call for the same ref, which
\* it would go on repeating, and the outermost call returns what a file
\* holds or raises an error of its own, not the interpreter's
\* RecursionError.
C20_RefResolveBounded ==
    /\ \A i, j \in 1..Len(rf.stack) : rf.stack[i] = rf.stack[j] => i = j
    /\ rf.resolved.err # "RecursionError"


----------------------------------------------------------------------------
(* Properties of init.                                                     *)

\* init was run on a path that was missing or an empty directory.
FreshPath == fs.before \in {"missing", "empty"}

\* C21: repo_create on a missing or empty directory runs to its end, and
\* then .git holds the directories objects, refs/heads, refs/tags and
\* branches and the files description, config and HEAD, HEAD holds exactly
\* "ref: refs/heads/master\n" (what the repository specification starts
\* from), config gives core.repositoryformatversion as 0, and
\* GitRepository(path), force unset, raises nothing.
C21_InitScaffold ==
    FreshPath =>
        /\ fs.pc # "raised"
        /\ fs.pc = "done" =>
            /\ {<<"objects">>, <<"refs", "heads">>, <<"refs", "tags">>, <<"branches">>}
                   \subseteq fs.dirs
            /\ {<<"description">>, <<"config">>, <<"HEAD">>} \subseteq DOMAIN fs.files
            /\ fs.files[<<"HEAD">>] = <<114, 101, 102, 58, 32, 114, 101, 102, 115, 47, 104,
                                        101, 97, 100, 115, 47, 109, 97, 115, 116, 101, 114, 10>>
            /\ fs.files[<<"HEAD">>] = repo_create[HEAD]
            /\ With(config_read(fs.files[<<"config">>]), LAMBDA conf :
                 /\ conf.err = ""
                 /\ config_get(conf.val, CoreSection, FormatVersionKey) = Ok(<<48>>))
            /\ GitRepository(fs, FALSE).err = ""

\* init has run on a missing path, and the repository was opened afterwards.
C21_Witness ==
    /\ fs.pc = "done"
    /\ fs.before = "missing"
    /\ fs.opened = [err |-> "", vers |-> <<48>>]


----------------------------------------------------------------------------
(* Properties of concurrent commits.                                       *)

\* Each process has returned from commit() or ended with an exception.
AllEnded == \A p \in RaceProcs : procs[p].pc \in {"done", "raised"}

\* The object sha is stored, and its file holds the bytes content.
StoredAs(sha, content) ==
    object_path(sha) \in DOMAIN objects /\ objects[object_path(sha)] = content

\* commit() run by one process alone writes the tree of the index.
TreeWritable == tree_write(World, read_index(World).ret).err = ""

\* C22: once two interleaved commits have ended, in a repository where a
\* commit run alone succeeds, both have returned, the commit object of each
\* is in the object store, and refs/heads/master holds the sha of the
\* process that wrote the ref last, which is the sha of one of the two
\* commits.
C22_LastWriterWins ==
    AllEnded /\ TreeWritable =>
        /\ \A p \in RaceProcs :
             /\ procs[p].pc = "done"
             /\ StoredAs(procs[p].sha, procs[p].content)
             /\ object_get_type(objects, procs[p].sha) = Ok(FmtCommit)
        /\ Len(hist.returned) = Cardinality(RaceProcs)
        /\ gitdir[MasterPath] = hist.returned[Len(hist.returned)] \o <<NL>>
        /\ \E p \in RaceProcs : gitdir[MasterPath] = procs[p].sha \o <<NL>>

\* Whatever the interleaving, once the commits have ended the ref holds the
\* sha of a commit that returned, written last, or no commit has returned
\* and there is no ref.
RaceRefHoldsACommit ==
    AllEnded =>
        IF \A p \in RaceProcs : procs[p].pc = "raised" THEN MasterPath \notin DOMAIN gitdir
        ELSE /\ gitdir[MasterPath] = hist.returned[Len(hist.returned)] \o <<NL>>
             /\ \E p \in RaceProcs : procs[p].pc = "done" /\ gitdir[MasterPath] = procs[p].sha \o <<NL>>


----------------------------------------------------------------------------
(* Properties of staging.                                                  *)

\* An entry name holds a '/'.
HasSlash(name) == \E j \in 1..Len(name) : name[j] = 47

\* '<octal mode> SP <name> NUL <20-byte binary sha>' for each entry, in order
LeafRecords(entries) ==
    Concat([i \in 1..Len(entries) |->
              OctStr(entries[i].mode) \o <<SP>> \o entries[i].name \o <<NUL>> \o entries[i].obj])

\* C23: write-tree is single-level.  A write-tree on an index that holds an
\* entry whose name holds a '/' fails and writes no object; on an index
\* without such a name it returns the sha of a tree object, stored by the
\* call, whose payload is one record '<octal mode> SP <name> NUL <sha>' per
\* entry, in index order, and it writes nothing else.
C23_WriteTreeSingleLevel ==
    [][(/\ run'.op = "write-tree"
        /\ hist'.ops = hist.ops + 1
        /\ read_index(World).err = "")
       => IF \E i \in 1..Len(StagedEntries) : HasSlash(StagedEntries[i].name)
          THEN run'.err # "" /\ objects' = objects
          ELSE /\ run'.err = ""
               /\ objects' = open_wb_write(objects, object_path(run'.sha),
                                zlib_compress(object_result(FmtTree, LeafRecords(StagedEntries))))]_vars


\* C25: every entry of the index for a regular file (mode high nibble
\* 0b1000) has the permission bits 0644 or 0755, whatever the bits of the
\* file on disk.
C25_RegularFilePerms ==
    read_index(World).err = "" =>
        \A i \in 1..Len(StagedEntries) :
            (StagedEntries[i].mode \div 4096) % 16 = 8
                => StagedEntries[i].mode % 512 \in {420, 493}

\* The blob of the worktree file path is in the store.
BlobStored(store, table, path) ==
    With(object_result(FmtBlob, Worktree[path].data), LAMBDA result :
        /\ result \in DOMAIN table
        /\ object_path(table[result]) \in DOMAIN store
        /\ store[object_path(table[result])] = zlib_compress(result))

\* C29: a failed add leaves the index unchanged.  When add_all fails, the
\* index file and the other files of .git are as before the call, no object
\* file is lost, and the blobs of the paths that come before the first path
\* that does not exist are in the store.
C29_FailedAddKeepsIndex ==
    [][(/\ run'.op = "add"
        /\ hist'.ops = hist.ops + 1
        /\ run'.err # "")
       => /\ gitdir' = gitdir
          /\ \A path \in DOMAIN objects : path \in DOMAIN objects' /\ objects'[path] = objects[path]
          /\ \A i \in 1..Len(run'.name) :
               (\A j \in 1..i : run'.name[j] \in DOMAIN Worktree)
                   => BlobStored(objects', sha1', run'.name[i])]_vars

\* C29's case: add of "a" and of a path that does not exist has failed on an
\* index that holds an entry, and has written the blob of "a", which was
\* not in the store before.
C29_Witness ==
    /\ run.op = "add"
    /\ run.err = "FileNotFoundError"
    /\ run.name = <<(<<97>>), PathZ>>
    /\ IndexPath \in DOMAIN gitdir
    /\ Len(StagedEntries) = 1
    /\ StagedEntries[1].name = PathDF
    /\ BlobStored(objects, sha1, <<97>>)
    /\ Cardinality(DOMAIN objects) = 2


----------------------------------------------------------------------------
(* Properties of read_index.                                               *)

\* The index file, and its four checks: the trailing 20 bytes are the SHA-1
\* of the bytes before them, the signature is "DIRC", the version is 2, and
\* the loop over the entry data parses as many entries as the header says.
IndexFile == gitdir[IndexPath]

ChecksumHolds ==
    /\ index_hashed(IndexFile) \in DOMAIN sha1
    /\ bytes_fromhex(sha1[index_hashed(IndexFile)])
         = Slice(IndexFile, 0 - CHECKSUM_LENGTH, Len(IndexFile))

SignatureHolds == Slice(IndexFile, 0, 4) = <<68, 73, 82, 67>>

VersionHolds == FromU32(Slice(IndexFile, 4, 8)) = 2

ParsedEntries == read_index_entries(Slice(IndexFile, HEADER_LENGTH, 0 - CHECKSUM_LENGTH), 0, <<>>)

CountHolds ==
    /\ ParsedEntries.err = ""
    /\ Len(ParsedEntries.val) = FromU32(Slice(IndexFile, 8, 12))

\* C24: read_index returns the empty list when there is no index file;
\* otherwise it returns entries, the ones parsed, only when the checksum,
\* the signature, the version and the count all hold, and fails when one of
\* them does not; a file that write_index wrote and nothing changed is read.
C24_ReadIndexValidation ==
    ix.pc = "done" =>
        IF IndexPath \notin DOMAIN gitdir THEN ix.read = Ok(<<>>)
        ELSE /\ ix.read.err = ""
                  <=> (ChecksumHolds /\ SignatureHolds /\ VersionHolds /\ CountHolds)
             /\ ix.read.err = "" => ix.read.val = ParsedEntries.val
             /\ ix.tamper = "none" => ix.read = Ok(ix.entries)
             /\ ix.tamper = "checksum" => ix.read.err = "AssertionError: invalid index checksum"

\* C24's case: the version was changed to 3 and the checksum is the one of
\* the changed bytes, so that the version check alone fails.
C24_Witness ==
    /\ ix.pc = "done"
    /\ ix.tamper = "version"
    /\ ChecksumHolds /\ SignatureHolds /\ CountHolds /\ ~VersionHolds
    /\ Len(ix.entries) = 1
    /\ ix.read.err = "AssertionError: unknown index version"


\* The entry data write_index writes for entries, and the position at which
\* the k-th entry starts in it.
EntryDataOf(entries) == Concat([i \in 1..Len(entries) |-> pack_entry(entries[i])])

EntryStart(entries, k) == Len(EntryDataOf(SubSeq(entries, 1, k - 1)))

\* The loop of read_index stops before it has parsed the last of entries.
LastEntryDropped(entries) ==
    With(read_index_entries(EntryDataOf(entries), 0, <<>>), LAMBDA r :
        r.err = "" /\ Len(r.val) < Len(entries))

\* C27, as stated: there is an index written by write_index for which the
\* loop of read_index stops before the last entry, so that fewer entries
\* are parsed than the header counts; stated once an index has been written
\* and read.
C27_LastEntryDropped ==
    ix.pc = "done" => \E entries \in IndexInputs : LastEntryDropped(entries)

\* C27, amended: for every index written by write_index the loop of
\* read_index, which runs while i + 62 < len(entry_data), runs at the start
\* of each entry, the last one too, since each entry is padded with at least
\* one NUL and so is at least 64 bytes long; the loop parses as many entries
\* as the header counts, and read_index returns them.
C27_NoEntryDropped ==
    ix.pc \in {"read", "done"} =>
        With(Slice(ix.file, HEADER_LENGTH, 0 - CHECKSUM_LENGTH), LAMBDA entry_data :
            /\ entry_data = EntryDataOf(ix.entries)
            /\ \A k \in 1..Len(ix.entries) :
                 /\ Len(pack_entry(ix.entries[k])) >= ENTRY_LENGTH + 2
                 /\ EntryStart(ix.entries, k) + ENTRY_LENGTH < Len(entry_data)
            /\ ~LastEntryDropped(ix.entries)
            /\ Len(read_index_entries(entry_data, 0, <<>>).val)
                 = FromU32(Slice(ix.file, 8, 12))
            /\ ix.pc = "done" => ix.read.err = "" /\ Len(ix.read.val) = Len(ix.entries))

\* C27's case: the last of two entries is named "a", so that its 64 bytes,
\* the least an entry takes, end the entry data, and both were read.
C27_Witness ==
    /\ ix.pc = "done"
    /\ Len(ix.entries) = 2
    /\ ix.entries[2].name = <<97>>
    /\ Len(pack_entry(ix.entries[2])) = 64
    /\ EntryStart(ix.entries, 2) + 64 = Len(EntryDataOf(ix.entries))
    /\ Len(ix.read.val) = 2


\* Properties of object_find with a kind.

\* The kind of the stored object sha, <<>> where there is no such object.
KindOf(sha) ==
    With(object_get_type(objects, sha), LAMBDA t : IF t.err = "" THEN t.val ELSE <<>>)

\* The sha of the tree the stored commit sha names.
TreeOfCommit(sha) ==
    With(Try(ReadAs(sha, FmtCommit), LAMBDA commit : kvlm_first(commit, FmtTree)),
         LAMBDA tree : IF tree.err = "" THEN tree.val ELSE <<>>)

\* object_find had one candidate, a stored blob, tree or commit, and a kind
\* to look for.
FoundTyped ==
    /\ rf.pc = "done"
    /\ rf.fmt # <<>>
    /\ rf.candidates.err = ""
    /\ Len(rf.candidates.val) = 1
    /\ KindOf(rf.candidates.val[1]) \in {FmtBlob, FmtTree, FmtCommit}

\* The candidate is of the kind looked for: it is returned.
FindSameKind ==
    (FoundTyped /\ KindOf(rf.candidates.val[1]) = rf.fmt)
    => rf.found = Ok(rf.candidates.val[1])

\* The candidate is a commit and a tree is looked for: the tree the commit
\* names, a stored tree, is returned.
FindTreeOfCommit ==
    (/\ FoundTyped
     /\ KindOf(rf.candidates.val[1]) = FmtCommit
     /\ rf.fmt = FmtTree
     /\ KindOf(TreeOfCommit(rf.candidates.val[1])) = FmtTree)
    => rf.found = Ok(TreeOfCommit(rf.candidates.val[1]))

\* The candidate is a commit and a blob is looked for: None is returned.
FindNoneFromCommit ==
    (FoundTyped /\ KindOf(rf.candidates.val[1]) = FmtCommit /\ rf.fmt = FmtBlob)
    => rf.found = Ok(<<>>)

\* The candidate is a blob or a tree and another kind is looked for: None is
\* returned.
FindNoneFromLeaf ==
    (/\ FoundTyped
     /\ KindOf(rf.candidates.val[1]) \in {FmtBlob, FmtTree}
     /\ KindOf(rf.candidates.val[1]) # rf.fmt)
    => rf.found = Ok(<<>>)

\* C26: type-checked resolution of objects that are no tags.  With a kind
\* and follow=True, object_find returns the candidate when it is of that
\* kind, the tree of the commit when the candidate is a commit and a tree is
\* looked for, and None, no hash and no error, in every other case.
C26_TypedResolution ==
    /\ FindSameKind
    /\ FindTreeOfCommit
    /\ FindNoneFromCommit
    /\ FindNoneFromLeaf


\* Properties of kvlm_parse's termination.

\* C28: kvlm_parse terminates on every input.  Once kvlm_parse has been
\* called on a payload it has returned a mapping or raised an error: its
\* loop over the lines of a value has come to an end.
C28_KvlmParseTerminates ==
    kv.pc \in {"serialize", "failed"} => kv.parsed.err # "Hang"


\* Properties of tag_create.

\* What refs/tags/<name> holds after the step.
TagHeld == Slice(gitdir'[RefsTags \o run'.name], 0, 0 - 1)

\* The tag object refs/tags/<name> names after the step.
TagWritten ==
    With(generic_object_read(objects', TagHeld), LAMBDA o :
        IF o.err = "" /\ o.val.fmt = FmtTag THEN o.val.obj ELSE <<>>)

\* C30: annotated tag consistency.  After tag_create(name, reference, True)
\* refs/tags/<name> holds the sha of a stored tag object whose object value
\* is the sha that reference resolved to and whose type value is the kind of
\* that object; a call that raises leaves the refs as they were.  After
\* tag_create(name, reference, False) refs/tags/<name> holds the resolved
\* sha and no object was written.
C30_TagConsistency ==
    [][(run'.op = "tag" /\ hist'.ops = hist.ops + 1) =>
        With(object_find(World, run'.reference, <<>>, TRUE), LAMBDA target :
            IF run'.err # "" THEN gitdir' = gitdir
            ELSE IF run'.annotated
            THEN /\ TagWritten # <<>>
                 /\ kvlm_first(TagWritten, <<111, 98, 106, 101, 99, 116>>) = Ok(target.val)
                 /\ kvlm_first(TagWritten, <<116, 121, 112, 101>>) = Ok(KindOf(target.val))
            ELSE /\ TagHeld = target.val
                 /\ objects' = objects)]_vars

====
